---- MODULE Spec2Model ----
(***************************************************************************)
(* A model of the text-adventure engine of src/src/main.rs: the session    *)
(* state (position, debug flag, player inventory, one inventory per room), *)
(* the turn loop of game_loop and the inventory operations it calls.       *)
(*                                                                         *)
(* Encodings.  Option<T>: the empty sequence << >> is None and <<v>> is    *)
(* Some(v).  Vec<T>: a sequence.  HashSet<String>: a set of strings.       *)
(* HashMap<K, V>: a function on the set of keys.  A Rust tuple (a, b): the *)
(* sequence <<a, b>>.                                                      *)
(***************************************************************************)
EXTENDS Integers, Sequences, FiniteSets, TLC

VARIABLES
    coord,              \* SaveState.coord
    debug,              \* SaveState.debug
    inventory,          \* SaveState.inventory.items
    room_inventories,   \* SaveState.room_inventories
    room,               \* Game.room, as the index of the Rc<Room> in Level.rooms
    room_info,          \* Game.room_info
    game_level,         \* Game.level
    room_map,           \* Game.lookup_room_info
    pc,                 \* "start": before Game::new; "loop": game_loop waits for a
                        \* command; "quit": main returned; "exit": process::exit(1);
                        \* "panic": the process panicked
    save_file,          \* data/save-state.yml: << >> when absent, <<document>> when written
    reported,           \* the map issues written to the error stream, in order
    line,               \* the tokens of the line get_prompt returned, << >> when none
    last                \* history: the last command executed, its outcome, the state before it

vars == <<coord, debug, inventory, room_inventories, room, room_info, game_level, room_map, pc,
          save_file, reported, line, last>>

None == << >>
Some(v) == <<v>>

Coord(x, y, z) == [x |-> x, y |-> y, z |-> z]

(***************************************************************************)
(* Content: the item catalog (data/items.yml) and the level                *)
(* (data/levels/*.yml) handed to the engine.  The content files are not    *)
(* part of the sources; this is a small well-formed world with the shapes  *)
(* the structs allow: a sticky starting item, a stackable starting item,   *)
(* placements with and without alias overrides, an alias shared by two     *)
(* catalog items, walls around every room.                                 *)
(***************************************************************************)
Sword ==
    [id |-> "sword", name |-> "Sword", targets |-> {"metal"}, sticky |-> TRUE,
     variant |-> "Weapon", quantity |-> 1, max_quantity |-> None,
     description |-> "A plain sword."]

Gold ==
    [id |-> "gold", name |-> "Gold", targets |-> {"coin", "metal"}, sticky |-> FALSE,
     variant |-> "Money", quantity |-> 2, max_quantity |-> Some(99),
     description |-> "Gold pieces."]

Token ==
    [id |-> "token", name |-> "Token", targets |-> {"token"}, sticky |-> FALSE,
     variant |-> "Consumable", quantity |-> 1, max_quantity |-> None,
     description |-> "A market token."]

\* ItemDatabase.items
ItemDb == <<Sword, Gold, Token>>

RoomItemOf(id, quantity, name, targets, pickup) ==
    [id |-> id, quantity |-> quantity, name |-> name, targets |-> targets,
     pickup |-> pickup]

ActionOf(verb, targets, value) == [verb |-> verb, targets |-> targets, value |-> value]

\* One layer; a row is the sequence of its characters (String::chars).
LevelMaps ==
    << << <<"#", "#", "#", "#">>,
          <<"#", ".", ".", "#">>,
          <<"#", ".", "#", "#", " ", "c">>,
          <<"#", "#", "#", "#">> >> >>

LevelRooms ==
    << [title |-> "Gate", coord |-> Coord(1, 1, 0), description |-> "The market gate.",
        actions |-> Some(<<ActionOf("Look", <<"sign">>, "The sign reads: market.")>>),
        items |-> << >>,
        npcs |-> <<"merchant">>,
        regions |-> <<"market">>],
       [title |-> "Stall", coord |-> Coord(2, 1, 0), description |-> "A stall.",
        actions |-> None,
        items |-> <<RoomItemOf("gold", 1, None, {}, None),
                    RoomItemOf("token", 1, Some("a brass token"), {"coin"},
                               Some("You pocket the token."))>>,
        npcs |-> << >>,
        regions |-> <<"market">>],
       [title |-> "Alley", coord |-> Coord(1, 2, 0), description |-> "An alley.",
        actions |-> None,
        items |-> <<RoomItemOf("sword", 1, None, {}, None)>>,
        npcs |-> << >>,
        regions |-> << >>] >>

LevelNpcs ==
    [n \in {"merchant"} |->
        [name |-> "Merchant", description |-> "A merchant.", targets |-> <<"merchant">>,
         talk |-> "Buy something.", items |-> <<[id |-> "token", cost |-> 5]>>]]

LevelRegions ==
    [r \in {"market"} |->
        [actions |-> <<ActionOf("Look", <<"banner">>, "Banners hang overhead."),
                       ActionOf("Talk", <<"crowd">>, "The crowd murmurs.")>>]]

Level ==
    [maps |-> LevelMaps, rooms |-> LevelRooms, entry |-> Coord(1, 1, 0),
     npcs |-> LevelNpcs, regions |-> LevelRegions]

(***************************************************************************)
(* Sequence helpers (Iterator::position / find, Vec::remove).              *)
(***************************************************************************)
\* The first of a set of indices of a sequence, 0 when the set is empty.
FirstIndex(indices) ==
    IF indices = {} THEN 0 ELSE CHOOSE i \in indices : \A j \in indices : i <= j

RemoveAt(seq, i) == SubSeq(seq, 1, i - 1) \o SubSeq(seq, i + 1, Len(seq))

(***************************************************************************)
(* Coordinates and the map resolver.  A usize is kept modulo 2^64 with the *)
(* residue -1 standing for usize::MAX, so that 0 - 1 wraps to -1.          *)
(***************************************************************************)
Directions == {"North", "East", "West", "South"}

\* A variant of Coord::apply with north and south exchanged.
Coord_apply_flipped(c, direction) ==
    CASE direction = "North" -> Coord(c.x, c.y + 1, c.z)
      [] direction = "East"  -> Coord(c.x + 1, c.y, c.z)
      [] direction = "West"  -> Coord(c.x - 1, c.y, c.z)
      [] direction = "South" -> Coord(c.x, c.y - 1, c.z)

Coord_apply(c, direction) ==
    CASE direction = "North" -> Coord(c.x, c.y - 1, c.z)
      [] direction = "East"  -> Coord(c.x + 1, c.y, c.z)
      [] direction = "West"  -> Coord(c.x - 1, c.y, c.z)
      [] direction = "South" -> Coord(c.x, c.y + 1, c.z)

\* The subtraction of Coord::apply overflows: a panic when the build checks
\* arithmetic overflow (debug profile), a wrap-around when it does not.
apply_overflows(c, direction) ==
    \/ direction = "North" /\ c.y = 0
    \/ direction = "West" /\ c.x = 0

get_room(level, c) ==
    LET i == FirstIndex({k \in 1..Len(level.rooms) : level.rooms[k].coord = c})
    IN  IF i = 0 THEN None ELSE Some(i)

\* A variant of scanned for which a space does not end the row.
scanned_whole_row(row) == Len(row)

\* The number of characters of a row the first pass looks at: those before
\* the first space.
scanned(row) ==
    LET i == FirstIndex({k \in 1..Len(row) : row[k] = " "})
    IN  IF i = 0 THEN Len(row) ELSE i - 1

\* The cells the first pass classifies, with their characters.
scanned_cells(level) ==
    UNION {UNION {{[coord |-> Coord(x - 1, y - 1, z - 1), ch |-> level.maps[z][y][x]] :
                        x \in 1..scanned(level.maps[z][y])} :
                  y \in 1..Len(level.maps[z])} :
           z \in 1..Len(level.maps)}

unknown_cells(level) ==
    {c.coord : c \in {d \in scanned_cells(level) : d.ch \notin {".", "#", "-"}}}

\* The order in which the first pass visits cells: layer, then row, then column.
scan_before(c, d) ==
    \/ c.z < d.z
    \/ c.z = d.z /\ c.y < d.y
    \/ c.z = d.z /\ c.y = d.y /\ c.x <= d.x

\* The cell at which the first pass stops (there is an unknown character).
first_unknown(level) ==
    CHOOSE c \in unknown_cells(level) : \A d \in unknown_cells(level) : scan_before(c, d)

\* coord_map of parse_map: the keys inserted by the first pass.
coord_map(level) ==
    {c.coord : c \in {d \in scanned_cells(level) : d.ch = "."}}

\* A variant of the record parse_map builds that never has a west entry.
RoomMapInfo_no_west(cm, c) ==
    [d \in Directions |->
        IF d # "West" /\ Coord_apply(c, d) \in cm THEN Some(Coord_apply(c, d)) ELSE None]

RoomMapInfo(cm, c) ==
    [d \in Directions |->
        IF Coord_apply(c, d) \in cm THEN Some(Coord_apply(c, d)) ELSE None]

from_direction(info, direction) == info[direction]

\* The coordinates of coord_map at which the second pass stops the process:
\* with a panic in Coord::apply when overflow is checked, else with exit(1)
\* when the cell has no room.
second_pass_failures(level, overflow_checks) ==
    {c \in coord_map(level) :
        \/ overflow_checks /\ \E d \in Directions : apply_overflows(c, d)
        \/ get_room(level, c) = None}

\* The outcomes of parse_map.  The first pass stops at the first unknown
\* character; the second pass iterates a HashMap, in an order the program does
\* not fix, and stops at the first failing coordinate of that order.
parse_map(level, overflow_checks) ==
    IF unknown_cells(level) # {}
    THEN {[tag |-> "exit", why |-> "unknown character", coord |-> first_unknown(level)]}
    ELSE IF second_pass_failures(level, overflow_checks) # {}
    THEN {IF overflow_checks /\ \E d \in Directions : apply_overflows(c, d)
          THEN [tag |-> "panic", why |-> "overflow", coord |-> c]
          ELSE [tag |-> "exit", why |-> "no room", coord |-> c] :
            c \in second_pass_failures(level, overflow_checks)}
    ELSE {[tag |-> "ok",
           room_map |-> [c \in coord_map(level) |-> RoomMapInfo(coord_map(level), c)]]}

(***************************************************************************)
(* The item catalog.                                                       *)
(***************************************************************************)
\* ItemDatabase::get: the first catalog item with the id (a panic when there
\* is none; every id of the content above is in the catalog).
ItemDatabase_get(item_db, id) ==
    item_db[FirstIndex({k \in 1..Len(item_db) : item_db[k].id = id})]

\* str::to_lowercase on the display names of the catalog.
to_lowercase(name) ==
    CASE name = "Sword" -> "sword"
      [] name = "Gold"  -> "gold"
      [] name = "Token" -> "token"
      [] OTHER -> name

(***************************************************************************)
(* The player's inventory: Vec<InventoryItem>.                             *)
(***************************************************************************)
\* A variant of add_item that always appends.
Inventory_add_item_push(items, new_item) == Append(items, new_item)

\* A variant of add_item that leaves the quantity of an existing entry alone.
Inventory_add_item_keep(items, new_item) ==
    LET i == FirstIndex({k \in 1..Len(items) : items[k].id = new_item.id})
    IN  IF i # 0 THEN items ELSE Append(items, new_item)

Inventory_add_item(items, new_item) ==
    LET i == FirstIndex({k \in 1..Len(items) : items[k].id = new_item.id})
    IN  IF i # 0
        THEN [items EXCEPT ![i].quantity = @ + new_item.quantity]
        ELSE Append(items, new_item)

\* The entry drop_item looks at: the first whose lower-cased name is the
\* given name or whose aliases contain it (0 when there is none).
drop_index(items, name) ==
    FirstIndex({k \in 1..Len(items) :
        to_lowercase(items[k].name) = name \/ name \in items[k].targets})

\* A variant of drop_item that passes over the sticky entries when it looks
\* for the entry to drop.
drop_item_first_droppable(items, name) ==
    LET index == drop_index(items, name)
        droppable == FirstIndex({k \in 1..Len(items) :
                        /\ ~items[k].sticky
                        /\ (to_lowercase(items[k].name) = name \/ name \in items[k].targets)})
    IN  IF index = 0
        THEN [result |-> "None", item |-> None, items |-> items]
        ELSE IF droppable = 0
        THEN [result |-> "Sticky", item |-> None, items |-> items]
        ELSE [result |-> "Item", item |-> Some(items[droppable]),
              items |-> RemoveAt(items, droppable)]

\* A variant of drop_item without the sticky check.
drop_item_no_sticky(items, name) ==
    LET index == drop_index(items, name)
    IN  IF index = 0
        THEN [result |-> "None", item |-> None, items |-> items]
        ELSE [result |-> "Item", item |-> Some(items[index]),
              items |-> RemoveAt(items, index)]

\* A variant of drop_item that hands out one unit of the removed entry.
drop_item_single(items, name) ==
    LET index == drop_index(items, name)
    IN  IF index = 0
        THEN [result |-> "None", item |-> None, items |-> items]
        ELSE IF items[index].sticky
        THEN [result |-> "Sticky", item |-> None, items |-> items]
        ELSE [result |-> "Item", item |-> Some([items[index] EXCEPT !.quantity = 1]),
              items |-> RemoveAt(items, index)]

\* Inventory::drop_item: the DropResult and the items left.
drop_item(items, name) ==
    LET index == drop_index(items, name)
    IN  IF index = 0
        THEN [result |-> "None", item |-> None, items |-> items]
        ELSE IF items[index].sticky
        THEN [result |-> "Sticky", item |-> None, items |-> items]
        ELSE [result |-> "Item", item |-> Some(items[index]),
              items |-> RemoveAt(items, index)]

(***************************************************************************)
(* A room's inventory: Vec<(RoomItem, InventoryItem)>.                     *)
(***************************************************************************)
\* impl From<&InventoryItem> for RoomItem
RoomItem_from(inventory_item) ==
    [id |-> inventory_item.id, quantity |-> inventory_item.quantity, name |-> None,
     targets |-> {}, pickup |-> None]

\* The entry take_item removes: the first whose placement aliases or whose
\* instance aliases contain the id (0 when there is none).
take_index(inv, id) ==
    FirstIndex({k \in 1..Len(inv) : id \in inv[k][1].targets \/ id \in inv[k][2].targets})

\* A variant of take_item that removes the last matching entry.
take_item_last(inv, id) ==
    LET matching == {k \in 1..Len(inv) : id \in inv[k][1].targets \/ id \in inv[k][2].targets}
        index == CHOOSE k \in matching : \A j \in matching : j <= k
    IN  IF matching = {}
        THEN [found |-> None, inventory |-> inv]
        ELSE [found |-> Some(inv[index]), inventory |-> RemoveAt(inv, index)]

\* A variant of take_item that looks for a placement alias in every entry
\* before it looks at instance aliases.
take_item_stub_first(inv, id) ==
    LET by_stub == FirstIndex({k \in 1..Len(inv) : id \in inv[k][1].targets})
        index == IF by_stub # 0 THEN by_stub ELSE take_index(inv, id)
    IN  IF index = 0
        THEN [found |-> None, inventory |-> inv]
        ELSE [found |-> Some(inv[index]), inventory |-> RemoveAt(inv, index)]

\* A variant of take_item that does not put back the entries it scanned
\* when none matches.
take_item_lossy(inv, id) ==
    LET index == take_index(inv, id)
    IN  IF index = 0
        THEN [found |-> None, inventory |-> << >>]
        ELSE [found |-> Some(inv[index]), inventory |-> RemoveAt(inv, index)]

\* RoomInventory::take_item: the entry found and the entries left.
take_item(inv, id) ==
    LET index == take_index(inv, id)
    IN  IF index = 0
        THEN [found |-> None, inventory |-> inv]
        ELSE [found |-> Some(inv[index]), inventory |-> RemoveAt(inv, index)]

RoomInventory_add_item(inv, inventory_item) ==
    Append(inv, <<RoomItem_from(inventory_item), inventory_item>>)

(***************************************************************************)
(* SaveState.                                                              *)
(***************************************************************************)
\* A variant of initialize that makes a room inventory only for the rooms
\* that have placements.
initialize_stocked_rooms(item_db, level) ==
    [coord |-> level.entry,
     debug |-> FALSE,
     inventory |-> <<ItemDatabase_get(item_db, "sword"), ItemDatabase_get(item_db, "gold")>>,
     room_inventories |->
        [c \in {level.rooms[k].coord : k \in {j \in 1..Len(level.rooms) :
                                                  level.rooms[j].items # << >>}} |->
            LET k == CHOOSE k \in 1..Len(level.rooms) :
                        /\ level.rooms[k].coord = c
                        /\ \A j \in (k + 1)..Len(level.rooms) : level.rooms[j].coord # c
            IN  [j \in 1..Len(level.rooms[k].items) |->
                    <<level.rooms[k].items[j],
                      [ItemDatabase_get(item_db, level.rooms[k].items[j].id)
                          EXCEPT !.quantity = level.rooms[k].items[j].quantity]>>]]]

\* The room inventory initialize builds for one room of the level.
initial_room_inventory(item_db, r) ==
    [k \in 1..Len(r.items) |->
        <<r.items[k],
          [ItemDatabase_get(item_db, r.items[k].id) EXCEPT !.quantity = r.items[k].quantity]>>]

\* SaveState::initialize.  Inserting the rooms in order into the HashMap
\* leaves, for a coordinate, the inventory of the last room that carries it.
initialize(item_db, level) ==
    [coord |-> level.entry,
     debug |-> FALSE,
     inventory |-> <<ItemDatabase_get(item_db, "sword"), ItemDatabase_get(item_db, "gold")>>,
     room_inventories |->
        [c \in {level.rooms[k].coord : k \in 1..Len(level.rooms)} |->
            LET k == CHOOSE k \in 1..Len(level.rooms) :
                        /\ level.rooms[k].coord = c
                        /\ \A j \in (k + 1)..Len(level.rooms) : level.rooms[j].coord # c
            IN  initial_room_inventory(item_db, level.rooms[k])]]

\* The SaveState value made of the state variables.
SaveState == [coord |-> coord, debug |-> debug, inventory |-> inventory,
              room_inventories |-> room_inventories]

(***************************************************************************)
(* The save file.  serde_yaml::to_string writes the SaveState as a YAML    *)
(* document and serde_yaml::from_str reads a document back by the type     *)
(* asked for.  A document is kept as its nodes: a scalar is [style, text], *)
(* a YAML sequence is a sequence, the mapping of a struct is a record of   *)
(* its fields and the mapping of a HashMap is a set of <<key, value>>      *)
(* pairs.                                                                  *)
(***************************************************************************)
Plain(text) == [style |-> "plain", text |-> text]
Quoted(text) == [style |-> "quoted", text |-> text]

\* The decimal text of a usize and the usize of a decimal text.
Digits == <<"0", "1", "2", "3", "4", "5", "6", "7", "8", "9">>
RECURSIVE usize_to_string(_)
usize_to_string(n) ==
    IF n < 10 THEN Digits[n + 1] ELSE usize_to_string(n \div 10) \o Digits[(n % 10) + 1]
RECURSIVE usize_from_str(_)
usize_from_str(text) ==
    LET digit == CHOOSE d \in 0..9 : Digits[d + 1] = SubSeq(text, Len(text), Len(text))
    IN  IF Len(text) = 1 THEN digit
        ELSE 10 * usize_from_str(SubSeq(text, 1, Len(text) - 1)) + digit

\* A string is written plain unless a plain scalar with its text would read
\* as null or as a boolean; a None is written as the plain scalar ~.
NullTexts == {"~", "null", ""}
String_to_yaml(str) ==
    IF str \in NullTexts \cup {"true", "false"} THEN Quoted(str) ELSE Plain(str)
String_from_yaml(node) == node.text
usize_to_yaml(n) == Plain(usize_to_string(n))
usize_from_yaml(node) == usize_from_str(node.text)
bool_to_yaml(b) == Plain(IF b THEN "true" ELSE "false")
bool_from_yaml(node) == node.text = "true"
is_null(node) == node.style = "plain" /\ node.text \in NullTexts
OptionString_to_yaml(option) == IF option = None THEN Plain("~") ELSE String_to_yaml(option[1])
OptionString_from_yaml(node) == IF is_null(node) THEN None ELSE Some(String_from_yaml(node))
OptionUsize_to_yaml(option) == IF option = None THEN Plain("~") ELSE usize_to_yaml(option[1])
OptionUsize_from_yaml(node) == IF is_null(node) THEN None ELSE Some(usize_from_yaml(node))

\* A HashSet<String> is written as a sequence, in the order its iterator
\* yields the elements, and read back as the set of the elements.
HashSet_to_yaml(set) ==
    LET order == CHOOSE f \in [1..Cardinality(set) -> set] : \A s \in set : \E k \in DOMAIN f : f[k] = s
    IN  [k \in 1..Cardinality(set) |-> String_to_yaml(order[k])]
HashSet_from_yaml(nodes) == {String_from_yaml(nodes[k]) : k \in 1..Len(nodes)}

Coord_to_yaml(c) == [x |-> usize_to_yaml(c.x), y |-> usize_to_yaml(c.y), z |-> usize_to_yaml(c.z)]
Coord_from_yaml(node) ==
    Coord(usize_from_yaml(node.x), usize_from_yaml(node.y), usize_from_yaml(node.z))

InventoryItem_to_yaml(item) ==
    [id |-> String_to_yaml(item.id), name |-> String_to_yaml(item.name),
     targets |-> HashSet_to_yaml(item.targets), sticky |-> bool_to_yaml(item.sticky),
     variant |-> Plain(item.variant), quantity |-> usize_to_yaml(item.quantity),
     max_quantity |-> OptionUsize_to_yaml(item.max_quantity),
     description |-> String_to_yaml(item.description)]
InventoryItem_from_yaml(node) ==
    [id |-> String_from_yaml(node.id), name |-> String_from_yaml(node.name),
     targets |-> HashSet_from_yaml(node.targets), sticky |-> bool_from_yaml(node.sticky),
     variant |-> node.variant.text, quantity |-> usize_from_yaml(node.quantity),
     max_quantity |-> OptionUsize_from_yaml(node.max_quantity),
     description |-> String_from_yaml(node.description)]

RoomItem_to_yaml(stub) ==
    [id |-> String_to_yaml(stub.id), quantity |-> usize_to_yaml(stub.quantity),
     name |-> OptionString_to_yaml(stub.name), targets |-> HashSet_to_yaml(stub.targets),
     pickup |-> OptionString_to_yaml(stub.pickup)]
RoomItem_from_yaml(node) ==
    RoomItemOf(String_from_yaml(node.id), usize_from_yaml(node.quantity),
               OptionString_from_yaml(node.name), HashSet_from_yaml(node.targets),
               OptionString_from_yaml(node.pickup))

RoomInventory_to_yaml(inv) ==
    [inventory |-> [k \in 1..Len(inv) |->
                        <<RoomItem_to_yaml(inv[k][1]), InventoryItem_to_yaml(inv[k][2])>>]]
RoomInventory_from_yaml(node) ==
    [k \in 1..Len(node.inventory) |->
        <<RoomItem_from_yaml(node.inventory[k][1]), InventoryItem_from_yaml(node.inventory[k][2])>>]

\* A variant of SaveState_to_yaml that writes the room inventory of the
\* current position only.
SaveState_to_yaml_current_room(state) ==
    [coord |-> Coord_to_yaml(state.coord),
     debug |-> bool_to_yaml(state.debug),
     inventory |-> [items |-> [k \in 1..Len(state.inventory) |->
                                  InventoryItem_to_yaml(state.inventory[k])]],
     room_inventories |->
        {<<Coord_to_yaml(c), RoomInventory_to_yaml(state.room_inventories[c])>> :
            c \in DOMAIN state.room_inventories \cap {state.coord}}]

\* serde_yaml::to_string(&game.save_state)
SaveState_to_yaml(state) ==
    [coord |-> Coord_to_yaml(state.coord),
     debug |-> bool_to_yaml(state.debug),
     inventory |-> [items |-> [k \in 1..Len(state.inventory) |->
                                  InventoryItem_to_yaml(state.inventory[k])]],
     room_inventories |->
        {<<Coord_to_yaml(c), RoomInventory_to_yaml(state.room_inventories[c])>> :
            c \in DOMAIN state.room_inventories}]

\* parse_yml::<SaveState> on the save file.
SaveState_from_yaml(doc) ==
    [coord |-> Coord_from_yaml(doc.coord),
     debug |-> bool_from_yaml(doc.debug),
     inventory |-> [k \in 1..Len(doc.inventory.items) |->
                        InventoryItem_from_yaml(doc.inventory.items[k])],
     room_inventories |->
        [c \in {Coord_from_yaml(pair[1]) : pair \in doc.room_inventories} |->
            LET pair == CHOOSE pair \in doc.room_inventories : Coord_from_yaml(pair[1]) = c
            IN  RoomInventory_from_yaml(pair[2])]]

(***************************************************************************)
(* The command interpreter.  The input line is the sequence of its tokens  *)
(* (str::split_whitespace); a ParsedCommand is [kind, arg] with arg the    *)
(* variant's payload as an Option; a Result is [ok, val].                  *)
(***************************************************************************)
Ok(v) == [ok |-> TRUE, val |-> v]
Err(message) == [ok |-> FALSE, val |-> message]

Cmd(kind, arg) == [kind |-> kind, arg |-> arg]
Message(text) == Cmd("Message", Some(text))

Prepositions == {"at", "to", "in", "up"}

\* The {:?} rendering of a string without characters to escape.
debug_fmt(str) == "\"" \o str \o "\""

\* The while loop of parse_command_target: each remaining word is pushed,
\* followed by a space when another word comes after it.
RECURSIVE push_words(_, _)
push_words(target, words) ==
    IF words = << >>
    THEN target
    ELSE push_words(target \o Head(words) \o (IF Tail(words) # << >> THEN " " ELSE ""),
                    Tail(words))

\* A variant of parse_command_target that keeps a leading preposition as the
\* first word of the target.
parse_command_target_keep(command, words) ==
    IF words = << >>
    THEN Ok(None)
    ELSE LET word == Head(words)
         IN  IF word \in Prepositions /\ Tail(words) = << >>
             THEN Err(command \o " " \o word \o "... what?")
             ELSE Ok(Some(push_words(word, Tail(words))))

parse_command_target(command, words) ==
    IF words = << >>
    THEN Ok(None)
    ELSE LET word == Head(words)
         IN  IF word \in Prepositions /\ Tail(words) = << >>
             THEN Err(command \o " " \o word \o "... what?")
             ELSE Ok(Some(push_words(IF word \in Prepositions THEN "" ELSE word,
                                     Tail(words))))

parse_command(input) ==
    IF input = << >>
    THEN Ok(Cmd("Look", None))
    ELSE
    LET command == Head(input)
        target == parse_command_target(command, Tail(input))
    IN  CASE command \in {"look", "l"} ->
                IF target.ok THEN Ok(Cmd("Look", target.val)) ELSE target
          [] command \in {"talk", "t"} ->
                IF target.ok THEN Ok(Cmd("Talk", target.val)) ELSE target
          [] command \in {"north", "n"} -> Ok(Cmd("Move", Some("North")))
          [] command \in {"east", "e"} -> Ok(Cmd("Move", Some("East")))
          [] command \in {"south", "s"} -> Ok(Cmd("Move", Some("South")))
          [] command \in {"west", "w"} -> Ok(Cmd("Move", Some("West")))
          [] command \in {"inventory", "inv"} -> Ok(Cmd("Inventory", None))
          [] command = "go" ->
                IF ~target.ok THEN target
                ELSE IF target.val = None THEN Ok(Message("Where do you want to go?"))
                ELSE CASE target.val[1] = "north" -> Ok(Cmd("Move", Some("North")))
                       [] target.val[1] = "east" -> Ok(Cmd("Move", Some("East")))
                       [] target.val[1] = "south" -> Ok(Cmd("Move", Some("South")))
                       [] target.val[1] = "west" -> Ok(Cmd("Move", Some("West")))
                       [] OTHER -> Err("You don't know how to go " \o debug_fmt(target.val[1]))
          [] command = "" -> Ok(Message(""))
          [] command = "help" -> Ok(Cmd("Help", None))
          [] command = "debug" -> Ok(Cmd("Debug", None))
          [] command = "drop" ->
                IF ~target.ok THEN target
                ELSE IF target.val = None THEN Ok(Message("You stop drop and roll."))
                ELSE Ok(Cmd("Drop", target.val))
          [] command \in {"pick", "pickup", "take", "grab"} ->
                IF ~target.ok THEN target
                ELSE IF target.val # None THEN Ok(Cmd("Take", target.val))
                ELSE IF command = "pick" THEN Err("You pick your nose. Gross.")
                ELSE Err("This relationship is on the rocks, all you do is take take take.")
          [] command \in {"quit", "q", "exit"} -> Ok(Cmd("Quit", None))
          [] command = "restart" -> Ok(Cmd("Restart", None))
          [] OTHER -> Ok(Message("You don't know how to " \o debug_fmt(command)
                                 \o ". Type \"help\" for help."))

\* A variant of command_of for which `go` with a direction always moves north.
command_of_go_north(input) ==
    LET parsed == parse_command(input)
    IN  IF Len(input) = 2 /\ Head(input) = "go" /\ parsed.ok
        THEN Cmd("Move", Some("North"))
        ELSE IF parsed.ok THEN parsed.val ELSE Message(parsed.val)

\* input.split_whitespace() on a line given as its characters: the maximal
\* runs of characters that are not whitespace, in order.
Whitespace == {" ", "\t"}
RECURSIVE split_from(_, _, _)
split_from(text, word, tokens) ==
    IF text = << >>
    THEN IF word = "" THEN tokens ELSE Append(tokens, word)
    ELSE IF Head(text) \in Whitespace
         THEN split_from(Tail(text), "", IF word = "" THEN tokens ELSE Append(tokens, word))
         ELSE split_from(Tail(text), word \o Head(text), tokens)
split_whitespace(text) == split_from(text, "", << >>)

\* A variant of command_of that answers a line without tokens with an empty
\* message.
command_of_empty_message(input) ==
    LET parsed == parse_command(input)
    IN  IF input = << >>
        THEN Message("")
        ELSE IF parsed.ok THEN parsed.val ELSE Message(parsed.val)

\* game_loop: parse_command(string).unwrap_or_else(|message| Message(message))
command_of(input) ==
    LET parsed == parse_command(input)
    IN  IF parsed.ok THEN parsed.val ELSE Message(parsed.val)

(***************************************************************************)
(* World lookups.  A lookup yields [tag |-> "Some", val |-> v],            *)
(* [tag |-> "None"] or, on a dangling reference, [tag |-> "panic"].        *)
(***************************************************************************)
\* A variant of the find of find_action that does not compare the verb.
action_index_any_verb(actions, verb, target) ==
    FirstIndex({i \in 1..Len(actions) :
        \E k \in 1..Len(actions[i].targets) : actions[i].targets[k] = target})

action_index(actions, verb, target) ==
    FirstIndex({i \in 1..Len(actions) :
        /\ actions[i].verb = verb
        /\ \E k \in 1..Len(actions[i].targets) : actions[i].targets[k] = target})

\* Room::find_action
find_action(r, verb, target, level) ==
    LET own == IF r.actions = None THEN 0 ELSE action_index(r.actions[1], verb, target)
        k == FirstIndex({i \in 1..Len(r.regions) :
                \/ r.regions[i] \notin DOMAIN level.regions
                \/ action_index(level.regions[r.regions[i]].actions, verb, target) # 0})
    IN  IF own # 0 THEN [tag |-> "Some", val |-> r.actions[1][own]]
        ELSE IF k = 0 THEN [tag |-> "None"]
        ELSE IF r.regions[k] \notin DOMAIN level.regions THEN [tag |-> "panic"]
        ELSE LET actions == level.regions[r.regions[k]].actions
             IN  [tag |-> "Some", val |-> actions[action_index(actions, verb, target)]]

\* Room::get_npc: find over the lazy npcs_iter, which panics when it reaches
\* an id absent from the NPC table.
get_npc(r, level, target) ==
    LET k == FirstIndex({i \in 1..Len(r.npcs) :
                \/ r.npcs[i] \notin DOMAIN level.npcs
                \/ \E j \in 1..Len(level.npcs[r.npcs[i]].targets) :
                        level.npcs[r.npcs[i]].targets[j] = target})
    IN  IF k = 0 THEN [tag |-> "None"]
        ELSE IF r.npcs[k] \notin DOMAIN level.npcs THEN [tag |-> "panic"]
        ELSE [tag |-> "Some", val |-> level.npcs[r.npcs[k]]]

in_catalog(item_db, id) == FirstIndex({k \in 1..Len(item_db) : item_db[k].id = id}) # 0

\* The npcs_iter loops of look_command over the sale lists: the first NPC, in
\* the room's order, that is dangling or sells an item whose id is the target.
sale_index(r, level, target) ==
    FirstIndex({i \in 1..Len(r.npcs) :
        \/ r.npcs[i] \notin DOMAIN level.npcs
        \/ \E j \in 1..Len(level.npcs[r.npcs[i]].items) :
                level.npcs[r.npcs[i]].items[j].id = target})

\* look_command: what it prints, or "panic".
look_command(r, level, item_db, target) ==
    LET action == find_action(r, "Look", target, level)
        npc == get_npc(r, level, target)
        k == sale_index(r, level, target)
    IN  IF action.tag = "panic" THEN "panic"
        ELSE IF action.tag = "Some" THEN "action"
        ELSE IF npc.tag = "panic" THEN "panic"
        ELSE IF npc.tag = "Some"
        THEN IF \A j \in 1..Len(npc.val.items) : in_catalog(item_db, npc.val.items[j].id)
             THEN "npc" ELSE "panic"
        ELSE IF k = 0 THEN "not seen"
        ELSE IF r.npcs[k] \notin DOMAIN level.npcs THEN "panic"
        ELSE IF in_catalog(item_db, target) THEN "item" ELSE "panic"

\* prompt_yes_no on the first response that is an answer.
YesNoResponses == {"yes", "y", "no", "n"}
prompt_yes_no(response) == response \in {"yes", "y"}

(***************************************************************************)
(* The game.  Printing, the help and intro files and the cache of the      *)
(* formatted room description are presentation and are left out; what a    *)
(* command reports is kept in last.out.                                    *)
(***************************************************************************)
\* The input lines of the turn loop, as token sequences.
Inputs ==
    { << >>, <<"look">>, <<"l", "sign">>, <<"look", "at", "banner">>, <<"look", "merchant">>,
      <<"look", "token">>, <<"look", "rock">>,
      <<"talk">>, <<"talk", "to", "crowd">>, <<"t", "rock">>,
      <<"north">>, <<"n">>, <<"e">>, <<"go", "south">>, <<"w">>, <<"go", "to", "east">>,
      <<"go">>, <<"go", "rock">>,
      <<"inventory">>, <<"help">>, <<"debug">>,
      <<"drop">>, <<"drop", "gold">>, <<"drop", "coin">>, <<"drop", "metal">>,
      <<"drop", "token">>, <<"drop", "rock">>, <<"drop", "in">>,
      <<"take", "coin">>, <<"grab", "metal">>, <<"pick", "up", "token">>,
      <<"take", "rock">>, <<"pick">>,
      <<"quit">>, <<"restart">>, <<"dance">> }

\* What the turn loop executes for these lines.
Commands == {command_of(input) : input \in Inputs}

\* Game.lookup_room_info, computed once by Game::new.
lookup_room_info ==
    (CHOOSE outcome \in parse_map(Level, FALSE) : TRUE).room_map

\* The fields of Game that Game::new derives from a SaveState.
new_game(state) ==
    [coord |-> state.coord, debug |-> state.debug, inventory |-> state.inventory,
     room_inventories |-> state.room_inventories,
     room |-> get_room(Level, state.coord)[1],
     room_info |-> lookup_room_info[state.coord]]

\* The state Game::new builds when there is no save file.
InitialGame == new_game(initialize(ItemDb, Level))

\* The history record of a command: the command, what it reported, the
\* SaveState before it, the instance a take or drop moved, the placement stub
\* a take returned with it and, for a drop that directly follows a successful
\* take, the history record of that take.
History(cmd, out, moved, stub, before_take) ==
    [cmd |-> cmd, out |-> out, pre |-> SaveState, moved |-> moved, stub |-> stub,
     before_take |-> before_take]

Init ==
    /\ \A overflow_checks \in BOOLEAN :
            \A outcome \in parse_map(Level, overflow_checks) : outcome.tag = "ok"
    /\ LET game == InitialGame
       IN  /\ coord = game.coord
           /\ debug = game.debug
           /\ inventory = game.inventory
           /\ room_inventories = game.room_inventories
           /\ room = game.room
           /\ room_info = game.room_info
    /\ game_level = Level
    /\ room_map = lookup_room_info
    /\ pc = "loop"
    /\ save_file = None
    /\ reported = << >>
    /\ line = << >>
    /\ last = [cmd |-> Cmd("Start", None), out |-> "started",
               pre |-> initialize(ItemDb, Level), moved |-> None, stub |-> None,
               before_take |-> None]

\* ParsedCommand::Look(Some(target))
LookTarget ==
    \E cmd \in Commands :
        LET out == look_command(game_level.rooms[room], game_level, ItemDb, cmd.arg[1])
        IN  /\ pc = "loop"
            /\ cmd.kind = "Look" /\ cmd.arg # None
            /\ pc' = IF out = "panic" THEN "panic" ELSE pc
            /\ last' = History(cmd, out, None, None, None)
            /\ UNCHANGED <<coord, debug, inventory, room_inventories, room, room_info,
                           save_file>>
            /\ UNCHANGED <<game_level, room_map, reported, line>>

\* ParsedCommand::Look(None)
LookRoom ==
    \E cmd \in Commands :
            /\ pc = "loop"
            /\ cmd.kind = "Look" /\ cmd.arg = None
            /\ last' = History(cmd, "room", None, None, None)
            /\ UNCHANGED <<coord, debug, inventory, room_inventories, room, room_info,
                           pc, save_file>>
            /\ UNCHANGED <<game_level, room_map, reported, line>>

\* ParsedCommand::Help
Help ==
    \E cmd \in Commands :
            /\ pc = "loop"
            /\ cmd.kind = "Help"
            /\ last' = History(cmd, "help", None, None, None)
            /\ UNCHANGED <<coord, debug, inventory, room_inventories, room, room_info,
                           pc, save_file>>
            /\ UNCHANGED <<game_level, room_map, reported, line>>

\* A variant of Move that keeps the adjacency record of the room it left.
Move_keeps_room_info ==
    \E cmd \in Commands :
        LET next_coord == from_direction(room_info, cmd.arg[1])
        IN  /\ pc = "loop"
            /\ cmd.kind = "Move"
            /\ IF next_coord # None
               THEN /\ coord' = next_coord[1]
                    /\ room' = get_room(game_level, next_coord[1])[1]
                    /\ last' = History(cmd, "moved", None, None, None)
               ELSE /\ last' = History(cmd, "cannot move", None, None, None)
                    /\ UNCHANGED <<coord, room>>
            /\ UNCHANGED <<room_info, debug, inventory, room_inventories, pc, save_file>>
            /\ UNCHANGED <<game_level, room_map, reported, line>>

\* ParsedCommand::Move(direction)
Move ==
    \E cmd \in Commands :
        LET next_coord == from_direction(room_info, cmd.arg[1])
        IN  /\ pc = "loop"
            /\ cmd.kind = "Move"
            /\ IF next_coord # None
               THEN /\ coord' = next_coord[1]
                    /\ room_info' = room_map[next_coord[1]]
                    /\ room' = get_room(game_level, next_coord[1])[1]
                    /\ last' = History(cmd, "moved", None, None, None)
               ELSE /\ last' = History(cmd, "cannot move", None, None, None)
                    /\ UNCHANGED <<coord, room_info, room>>
            /\ UNCHANGED <<debug, inventory, room_inventories, pc, save_file>>
            /\ UNCHANGED <<game_level, room_map, reported, line>>

\* A variant of Debug that turns the flag on instead of flipping it.
Debug_turns_on ==
    \E cmd \in Commands :
            /\ pc = "loop"
            /\ cmd.kind = "Debug"
            /\ debug' = TRUE
            /\ last' = History(cmd, "debug", None, None, None)
            /\ UNCHANGED <<coord, inventory, room_inventories, room, room_info, pc,
                           save_file>>
            /\ UNCHANGED <<game_level, room_map, reported, line>>

\* ParsedCommand::Debug
Debug ==
    \E cmd \in Commands :
            /\ pc = "loop"
            /\ cmd.kind = "Debug"
            /\ debug' = ~debug
            /\ last' = History(cmd, "debug", None, None, None)
            /\ UNCHANGED <<coord, inventory, room_inventories, room, room_info, pc,
                           save_file>>
            /\ UNCHANGED <<game_level, room_map, reported, line>>

\* SaveState::room_inventory_mut: the inventory of the room at the current
\* position (a panic when the position has none).
has_room_inventory == coord \in DOMAIN room_inventories
room_inventory_mut == room_inventories[coord]

\* ParsedCommand::Drop(target)
Drop ==
    \E cmd \in Commands :
        LET dropped == drop_item(inventory, cmd.arg[1])
            after_take == last.cmd.kind = "Take" /\ last.out = "taken"
        IN  /\ pc = "loop"
            /\ cmd.kind = "Drop"
            /\ inventory' = dropped.items
            /\ IF dropped.result = "Item"
               THEN IF has_room_inventory
                    THEN /\ room_inventories' =
                               [room_inventories EXCEPT
                                   ![coord] = RoomInventory_add_item(@, dropped.item[1])]
                         /\ pc' = pc
                         /\ last' = History(cmd, "dropped", dropped.item, None,
                                            IF after_take THEN Some(last) ELSE None)
                    ELSE /\ pc' = "panic"
                         /\ last' = History(cmd, "panic", None, None, None)
                         /\ UNCHANGED room_inventories
               ELSE /\ last' = History(cmd, IF dropped.result = "Sticky" THEN "sticky"
                                                                         ELSE "nothing to drop",
                                       None, None, None)
                    /\ UNCHANGED <<room_inventories, pc>>
            /\ UNCHANGED <<coord, debug, room, room_info, save_file>>
            /\ UNCHANGED <<game_level, room_map, reported, line>>

\* ParsedCommand::Take(target)
Take ==
    \E cmd \in Commands :
        LET taken == take_item(room_inventory_mut, cmd.arg[1])
        IN  /\ pc = "loop"
            /\ cmd.kind = "Take"
            /\ IF ~has_room_inventory
               THEN /\ pc' = "panic"
                    /\ last' = History(cmd, "panic", None, None, None)
                    /\ UNCHANGED <<inventory, room_inventories>>
               ELSE /\ room_inventories' = [room_inventories EXCEPT ![coord] = taken.inventory]
                    /\ pc' = pc
                    /\ IF taken.found # None
                       THEN /\ inventory' = Inventory_add_item(inventory, taken.found[1][2])
                            /\ last' = History(cmd, "taken", Some(taken.found[1][2]),
                                               Some(taken.found[1][1]), None)
                       ELSE /\ last' = History(cmd, "nothing to take", None, None, None)
                            /\ UNCHANGED inventory
            /\ UNCHANGED <<coord, debug, room, room_info, save_file>>
            /\ UNCHANGED <<game_level, room_map, reported, line>>

\* ParsedCommand::Quit: the state is written to the save file and main returns.
Quit ==
    \E cmd \in Commands :
            /\ pc = "loop"
            /\ cmd.kind = "Quit"
            /\ save_file' = Some(SaveState_to_yaml(SaveState))
            /\ pc' = "quit"
            /\ last' = History(cmd, "quit", None, None, None)
            /\ UNCHANGED <<coord, debug, inventory, room_inventories, room, room_info>>
            /\ UNCHANGED <<game_level, room_map, reported, line>>

\* ParsedCommand::Talk(Some(target))
TalkTarget ==
    \E cmd \in Commands :
        LET action == find_action(game_level.rooms[room], "Talk", cmd.arg[1], game_level)
        IN  /\ pc = "loop"
            /\ cmd.kind = "Talk" /\ cmd.arg # None
            /\ pc' = IF action.tag = "panic" THEN "panic" ELSE pc
            /\ last' = History(cmd, CASE action.tag = "Some" -> "action"
                                      [] action.tag = "None" -> "cannot talk"
                                      [] OTHER -> "panic", None, None, None)
            /\ UNCHANGED <<coord, debug, inventory, room_inventories, room, room_info,
                           save_file>>
            /\ UNCHANGED <<game_level, room_map, reported, line>>

\* ParsedCommand::Talk(None)
TalkNone ==
    \E cmd \in Commands :
            /\ pc = "loop"
            /\ cmd.kind = "Talk" /\ cmd.arg = None
            /\ last' = History(cmd, "talk aloud", None, None, None)
            /\ UNCHANGED <<coord, debug, inventory, room_inventories, room, room_info,
                           pc, save_file>>
            /\ UNCHANGED <<game_level, room_map, reported, line>>

\* ParsedCommand::Inventory
Inventory ==
    \E cmd \in Commands :
            /\ pc = "loop"
            /\ cmd.kind = "Inventory"
            /\ last' = History(cmd, "inventory", None, None, None)
            /\ UNCHANGED <<coord, debug, inventory, room_inventories, room, room_info,
                           pc, save_file>>
            /\ UNCHANGED <<game_level, room_map, reported, line>>

\* ParsedCommand::Message(message)
PrintMessage ==
    \E cmd \in Commands :
            /\ pc = "loop"
            /\ cmd.kind = "Message"
            /\ last' = History(cmd, "message", None, None, None)
            /\ UNCHANGED <<coord, debug, inventory, room_inventories, room, room_info,
                           pc, save_file>>
            /\ UNCHANGED <<game_level, room_map, reported, line>>

\* A variant of Restart in which main does not remove the save file, so that
\* the next game_loop reads it when there is one.
Restart_keeps_save_file ==
    \E cmd \in Commands, response \in YesNoResponses :
        LET game == IF save_file = None THEN InitialGame
                    ELSE new_game(SaveState_from_yaml(save_file[1]))
        IN  /\ pc = "loop"
            /\ cmd.kind = "Restart"
            /\ IF prompt_yes_no(response)
               THEN /\ coord' = game.coord
                    /\ debug' = game.debug
                    /\ inventory' = game.inventory
                    /\ room_inventories' = game.room_inventories
                    /\ room' = game.room
                    /\ room_info' = game.room_info
                    /\ last' = History(cmd, "restarted", None, None, None)
               ELSE /\ last' = History(cmd, "keep playing", None, None, None)
                    /\ UNCHANGED <<coord, debug, inventory, room_inventories, room,
                                   room_info>>
            /\ UNCHANGED <<pc, save_file>>
            /\ UNCHANGED <<game_level, room_map, reported, line>>

\* ParsedCommand::Restart.  On yes game_loop returns Restart, main removes the
\* save file and calls game_loop again, whose Game::new finds no save file
\* and initializes the state.
Restart ==
    \E cmd \in Commands, response \in YesNoResponses :
        LET game == InitialGame
        IN  /\ pc = "loop"
            /\ cmd.kind = "Restart"
            /\ IF prompt_yes_no(response)
               THEN /\ save_file' = None
                    /\ coord' = game.coord
                    /\ debug' = game.debug
                    /\ inventory' = game.inventory
                    /\ room_inventories' = game.room_inventories
                    /\ room' = game.room
                    /\ room_info' = game.room_info
                    /\ last' = History(cmd, "restarted", None, None, None)
               ELSE /\ last' = History(cmd, "keep playing", None, None, None)
                    /\ UNCHANGED <<coord, debug, inventory, room_inventories, room,
                                   room_info, save_file>>
            /\ UNCHANGED pc
            /\ UNCHANGED <<game_level, room_map, reported, line>>

Next ==
    \/ LookTarget
    \/ LookRoom
    \/ Help
    \/ Move
    \/ Debug
    \/ Drop
    \/ Take
    \/ Quit
    \/ TalkTarget
    \/ TalkNone
    \/ Inventory
    \/ PrintMessage
    \/ Restart

Spec == Init /\ [][Next]_vars

(***************************************************************************)
(* The start of the process on a level file: Game::new up to the first     *)
(* prompt of game_loop, for every small level, then moves on its map.      *)
(***************************************************************************)
MapChars == {".", "#", " "}
MaxCols == 2
MaxRows == 2
MaxLayers == 2
MaxMapRows == 3
MaxMissing == 2

\* The rows, the layers and the maps of a level file within the bounds.
MapRows == UNION {[1..n -> MapChars] : n \in 0..MaxCols}
MapLayers == UNION {[1..n -> MapRows] : n \in 1..MaxRows}

RECURSIVE rows_in(_)
rows_in(maps) == IF maps = << >> THEN 0 ELSE Len(Head(maps)) + rows_in(Tail(maps))

Maps == {maps \in UNION {[1..n -> MapLayers] : n \in 1..MaxLayers} :
            rows_in(maps) <= MaxMapRows}

\* A set of coordinates as a sequence in scan order.
RECURSIVE in_scan_order(_)
in_scan_order(coords) ==
    IF coords = {} THEN << >>
    ELSE LET c == CHOOSE c \in coords : \A d \in coords : scan_before(c, d)
         IN  <<c>> \o in_scan_order(coords \ {c})

\* A room of a level file: the first room of a cell places three tokens under
\* another name and one gold, a second room of the same cell places a sword.
RoomAt(c, title) ==
    [title |-> title, coord |-> c, description |-> "A room.", actions |-> None,
     items |-> IF title = "Room"
               THEN <<RoomItemOf("token", 3, Some("brass tokens"), {"coin"}, None),
                      RoomItemOf("gold", 1, None, {}, None)>>
               ELSE <<RoomItemOf("sword", 1, None, {}, None)>>,
     npcs |-> << >>, regions |-> << >>]

\* The room list of a level file for the passable cells of its map: a room
\* for each cell but those of `missing`, then a second room for each cell of
\* `doubled`.
rooms_for(cells, missing, doubled) ==
    LET first == in_scan_order(cells \ missing)
        second == in_scan_order(doubled)
    IN  [k \in 1..Len(first) |-> RoomAt(first[k], "Room")]
            \o [k \in 1..Len(second) |-> RoomAt(second[k], "Another room")]

\* The entry of these levels: the first passable cell, the origin when the
\* map has none.
entry_of(cells) ==
    IF cells = {} THEN Coord(0, 0, 0)
    ELSE CHOOSE c \in cells : \A d \in cells : scan_before(c, d)

\* The room plans for the passable cells of a map: complete, with up to
\* MaxMissing rooms missing, or with the room of one cell given twice.
plans_on(cells) ==
    {<<missing, {}>> : missing \in {m \in SUBSET cells : Cardinality(m) <= MaxMissing}}
        \cup {<<{}, {c}>> : c \in cells}

\* The level file with a map, its passable cells and a room plan.
level_on(maps, cells, plan) ==
    [maps |-> maps, rooms |-> rooms_for(cells, plan[1], plan[2]),
     entry |-> entry_of(cells), npcs |-> << >>, regions |-> << >>]

NoRoomIssue(c) ==
    [text |-> "No room info was found in the map. Add the following coordinate:",
     coord |-> Some(c)]
UnknownCharacterIssue(c) == [text |-> "Unknown character in a map.", coord |-> Some(c)]
OverflowPanic == [text |-> "attempt to subtract with overflow", coord |-> None]

\* What parse_map leaves on the error stream for an outcome.
issues_of(outcome) ==
    CASE outcome.tag = "ok" -> << >>
      [] outcome.tag = "panic" -> <<OverflowPanic>>
      [] outcome.why = "no room" -> <<NoRoomIssue(outcome.coord)>>
      [] OTHER -> <<UnknownCharacterIssue(outcome.coord)>>

\* The start of a process: Game::new, which reads the save file when there
\* is one and initializes the state otherwise, then the first prompt of
\* game_loop.  The build either checks arithmetic overflow or does not.
Launch ==
    \E overflow_checks \in BOOLEAN :
        \E outcome \in parse_map(game_level, overflow_checks) :
            LET state == IF save_file = None
                         THEN initialize(ItemDb, game_level)
                         ELSE SaveState_from_yaml(save_file[1])
                started == /\ outcome.tag = "ok"
                           /\ get_room(game_level, state.coord) # None
                           /\ state.coord \in DOMAIN outcome.room_map
            IN  /\ pc \in {"start", "quit"}
                /\ reported' = reported \o issues_of(outcome)
                /\ IF started
                   THEN /\ coord' = state.coord
                        /\ debug' = state.debug
                        /\ inventory' = state.inventory
                        /\ room_inventories' = state.room_inventories
                        /\ room_map' = outcome.room_map
                        /\ room' = get_room(game_level, state.coord)[1]
                        /\ room_info' = outcome.room_map[state.coord]
                        /\ pc' = "loop"
                   ELSE /\ pc' = IF outcome.tag = "ok" THEN "panic" ELSE outcome.tag
                        /\ UNCHANGED <<coord, debug, inventory, room_inventories, room_map,
                                       room, room_info>>
                /\ last' = [cmd |-> Cmd("Launch", None),
                            out |-> CASE started /\ save_file = None -> "started"
                                      [] started -> "resumed"
                                      [] outcome.tag = "ok" -> "no entry room"
                                      [] outcome.tag = "panic" -> "overflow"
                                      [] OTHER -> outcome.why,
                            pre |-> state, moved |-> None, stub |-> None,
                            before_take |-> None]
                /\ UNCHANGED <<game_level, save_file, line>>

\* The process is about to start on a level file, with no save file.
MapInit ==
    /\ \E maps \in Maps :
            \E plan \in plans_on(coord_map([maps |-> maps])) :
                game_level = level_on(maps, coord_map([maps |-> maps]), plan)
    /\ coord = game_level.entry
    /\ debug = FALSE
    /\ inventory = << >>
    /\ room_inventories = << >>
    /\ room = 0
    /\ room_info = [d \in Directions |-> None]
    /\ room_map = << >>
    /\ pc = "start"
    /\ save_file = None
    /\ reported = << >>
    /\ line = << >>
    /\ last = [cmd |-> Cmd("Start", None), out |-> "not started",
               pre |-> initialize(ItemDb, game_level), moved |-> None, stub |-> None,
               before_take |-> None]

MapNext ==
    \/ Launch
    \/ Move

MapSpec == MapInit /\ [][MapNext]_vars

(***************************************************************************)
(* Properties.                                                             *)
(***************************************************************************)
\* The instances of a room inventory, in order.
instances(inv) == [k \in 1..Len(inv) |-> inv[k][2]]

RECURSIVE quantity_from(_, _, _)
quantity_from(items, id, k) ==
    IF k > Len(items) THEN 0
    ELSE (IF items[k].id = id THEN items[k].quantity ELSE 0) + quantity_from(items, id, k + 1)

\* The quantity of a catalog id in a sequence of instances.
quantity_of(items, id) == quantity_from(items, id, 1)

entries_with(items, id) == {k \in 1..Len(items) : items[k].id = id}

no_duplicate_ids(items) ==
    \A j, k \in 1..Len(items) : items[j].id = items[k].id => j = k

CatalogIds == {ItemDb[k].id : k \in 1..Len(ItemDb)}

RoomCoords == DOMAIN room_inventories

RECURSIVE quantity_in_rooms(_, _, _)
quantity_in_rooms(invs, id, coords) ==
    IF coords = {} THEN 0
    ELSE LET c == CHOOSE c \in coords : TRUE
         IN  quantity_of(instances(invs[c]), id) + quantity_in_rooms(invs, id, coords \ {c})

\* The quantity of a catalog id over the player and every room of a SaveState.
total_quantity(state, id) ==
    quantity_of(state.inventory, id)
        + quantity_in_rooms(state.room_inventories, id, DOMAIN state.room_inventories)

\* C1: no inventory, the player's or a room's, holds two entries with the
\* same catalog id.
C1_NoDuplicateIds ==
    /\ no_duplicate_ids(inventory)
    /\ \A c \in RoomCoords : no_duplicate_ids(instances(room_inventories[c]))

\* C2: for every catalog id, the quantity summed over the player's inventory
\* and all room inventories is the one the initialized session started with.
C2_QuantityConserved ==
    \A id \in CatalogIds :
        total_quantity(SaveState, id) = total_quantity(initialize(ItemDb, Level), id)

\* C2 witness: a drop that directly follows a take which merged into an
\* entry the player already held, away from the entry room, with debug on.
C2_Witness ==
    /\ last.out = "dropped"
    /\ last.before_take # None
    /\ quantity_of(last.before_take[1].pre.inventory, last.before_take[1].moved[1].id) > 0
    /\ debug
    /\ coord # Level.entry

\* C3: in every step other than a confirmed restart, each sticky entry of the
\* player's inventory is still there afterwards, still sticky and with a
\* quantity at least as large, and no room inventory gains an entry with its id.
C3_StickyStays ==
    [][last'.out # "restarted" =>
        \A k \in 1..Len(inventory) :
            inventory[k].sticky =>
                /\ \E j \in 1..Len(inventory') :
                        /\ inventory'[j].id = inventory[k].id
                        /\ inventory'[j].sticky
                        /\ inventory'[j].quantity >= inventory[k].quantity
                /\ \A c \in RoomCoords :
                        Cardinality(entries_with(instances(room_inventories'[c]),
                                                 inventory[k].id))
                            <= Cardinality(entries_with(instances(room_inventories[c]),
                                                        inventory[k].id))]_vars

\* C3 witness: a drop has just been refused for a sticky entry whose quantity
\* grew by a take since the session began.
C3_Witness ==
    /\ last.out = "sticky"
    /\ \E k \in 1..Len(inventory) :
            inventory[k].sticky /\ inventory[k].quantity > Sword.quantity

\* The entry of the state before the last command that a drop of the last
\* command's target looks at (0 when there is none).
dropped_index == drop_index(last.pre.inventory, last.cmd.arg[1])

\* C4: a drop whose matched entry is sticky reports Sticky and leaves the
\* player's inventory and every room inventory as they were.
C4_StickyDropRefused ==
    (/\ last.cmd.kind = "Drop"
     /\ dropped_index # 0
     /\ last.pre.inventory[dropped_index].sticky)
        => /\ last.out = "sticky"
           /\ inventory = last.pre.inventory
           /\ room_inventories = last.pre.room_inventories

\* C4 witness: a refused drop by an alias that a later, non-sticky entry of
\* the player's inventory carries too, in a room that holds items.
C4_Witness ==
    /\ last.out = "sticky"
    /\ \E k \in 1..Len(inventory) :
            ~inventory[k].sticky /\ last.cmd.arg[1] \in inventory[k].targets
    /\ room_inventories[coord] # << >>

\* C5: a drop whose matched entry is not sticky removes that entry alone and
\* keeps the others in order; the instance handed out has the entry's id and
\* full quantity and goes into the inventory of the room at the current
\* position, whose quantity of that id grows by it.
C5_DropMovesEntry ==
    (/\ last.cmd.kind = "Drop"
     /\ dropped_index # 0
     /\ ~last.pre.inventory[dropped_index].sticky)
        => LET old == last.pre.inventory
               entry == old[dropped_index]
               old_room == instances(last.pre.room_inventories[coord])
               new_room == instances(room_inventories[coord])
           IN  /\ last.out = "dropped"
               /\ Len(inventory) = Len(old) - 1
               /\ \A j \in 1..Len(inventory) :
                       inventory[j] = old[IF j < dropped_index THEN j ELSE j + 1]
               /\ last.moved # None
               /\ last.moved[1].id = entry.id
               /\ last.moved[1].quantity = entry.quantity
               /\ coord = last.pre.coord
               /\ \E j \in 1..Len(new_room) : new_room[j].id = entry.id
               /\ \A id \in CatalogIds :
                       quantity_of(new_room, id) =
                           quantity_of(old_room, id) + (IF id = entry.id THEN entry.quantity ELSE 0)

\* C5 witness: a drop by display name of an entry with a merged quantity that
\* had entries before and after it in the player's inventory.
C5_Witness ==
    /\ last.out = "dropped"
    /\ last.cmd.arg[1] \notin last.moved[1].targets
    /\ last.moved[1].quantity > Gold.quantity
    /\ 1 < dropped_index /\ dropped_index < Len(last.pre.inventory)

\* A drop has just put back, in the same room, the item that the command
\* right before it took from that room.
cycle_done ==
    /\ last.out = "dropped"
    /\ last.before_take # None
    /\ last.moved[1].id = last.before_take[1].moved[1].id

ids_in(items) == {items[k].id : k \in 1..Len(items)}

\* C6, as claimed: after a take followed by a drop of the same item in the
\* same room, the room inventory holds the same ids and the same quantity per
\* id as before the take, whatever the player held.
C6_RoundTrip ==
    cycle_done =>
        LET before == instances(last.before_take[1].pre.room_inventories[coord])
            after == instances(room_inventories[coord])
        IN  /\ ids_in(after) = ids_in(before)
            /\ \A id \in CatalogIds : quantity_of(after, id) = quantity_of(before, id)

\* C6, amended: after such a cycle the room inventory holds the same ids, and
\* the same quantity per id except that the quantity of the id taken has
\* grown by the quantity of that id the player held before the take.
C6_RoundTripUpToHeld ==
    cycle_done =>
        LET take == last.before_take[1]
            before == instances(take.pre.room_inventories[coord])
            after == instances(room_inventories[coord])
        IN  /\ coord = take.pre.coord
            /\ ids_in(after) = ids_in(before)
            /\ \A id \in CatalogIds :
                    quantity_of(after, id) =
                        quantity_of(before, id)
                            + (IF id = take.moved[1].id
                               THEN quantity_of(take.pre.inventory, id) ELSE 0)

\* C6 witness: a completed cycle of an item the player did not hold before,
\* taken by a placement alias that its instance does not carry.
C6_Witness ==
    /\ cycle_done
    /\ quantity_of(last.before_take[1].pre.inventory, last.moved[1].id) = 0
    /\ last.before_take[1].cmd.arg[1] \notin last.moved[1].targets

\* C7: the add of a taken instance into the player's inventory either sums
\* its quantity into the entry with its id, the entries keeping their number
\* and order, or appends it as the last entry, the others unchanged.
C7_AddMergesOrAppends ==
    last.out = "taken" =>
        LET old == last.pre.inventory
            new_item == last.moved[1]
            same == entries_with(old, new_item.id)
        IN  IF same # {}
            THEN /\ Len(inventory) = Len(old)
                 /\ \E i \in same :
                        /\ \A j \in same : i <= j
                        /\ inventory[i] =
                              [old[i] EXCEPT !.quantity = old[i].quantity + new_item.quantity]
                        /\ \A j \in 1..Len(old) : j # i => inventory[j] = old[j]
            ELSE /\ Len(inventory) = Len(old) + 1
                 /\ inventory[Len(inventory)] = new_item
                 /\ \A j \in 1..Len(old) : inventory[j] = old[j]

\* C7 witness: an add that summed into an entry with entries before and
\* after it, one of them appended by an earlier add.
C7_Witness ==
    /\ last.out = "taken"
    /\ \E i \in entries_with(last.pre.inventory, last.moved[1].id) :
            1 < i /\ i < Len(last.pre.inventory)
    /\ Len(inventory) > Len(InitialGame.inventory)

\* The entries of the room inventory before the last command that a take of
\* its target matches, through either alias set.
taken_from == last.pre.room_inventories[last.pre.coord]
take_matching ==
    {k \in 1..Len(taken_from) :
        \/ last.cmd.arg[1] \in taken_from[k][1].targets
        \/ last.cmd.arg[1] \in taken_from[k][2].targets}

\* C8: a take removes and returns the first entry, in inventory order, whose
\* placement aliases or instance aliases contain the target, the other
\* entries keeping their order; when none matches it returns None and the
\* room inventory is unchanged.
C8_TakeFirstMatch ==
    last.cmd.kind = "Take" =>
        LET now == room_inventories[last.pre.coord]
        IN  IF take_matching = {}
            THEN /\ last.out = "nothing to take"
                 /\ last.moved = None /\ last.stub = None
                 /\ now = taken_from
            ELSE \E i \in take_matching :
                    /\ \A j \in take_matching : i <= j
                    /\ last.out = "taken"
                    /\ last.stub = Some(taken_from[i][1])
                    /\ last.moved = Some(taken_from[i][2])
                    /\ Len(now) = Len(taken_from) - 1
                    /\ \A j \in 1..Len(now) :
                            now[j] = taken_from[IF j < i THEN j ELSE j + 1]

\* C8 witness: a take whose target matched two entries of the room.
C8_Witness ==
    /\ last.out = "taken"
    /\ Cardinality(take_matching) >= 2
    /\ Len(room_inventories[coord]) >= 1

\* A take in a room that holds an entry matched by its placement aliases and
\* another entry matched by its instance aliases only.
stub_and_instance_match ==
    /\ last.cmd.kind = "Take"
    /\ \E a, b \in take_matching :
            /\ last.cmd.arg[1] \in taken_from[a][1].targets
            /\ last.cmd.arg[1] \notin taken_from[b][1].targets

\* C9, as claimed: in that case take returns the entry matched by its
\* placement aliases, whatever the order of the two entries.
C9_StubPriority ==
    stub_and_instance_match =>
        last.stub # None /\ last.cmd.arg[1] \in last.stub[1].targets

\* C9, amended: in that case take returns the first of the matching entries
\* in inventory order; it is the entry matched by its placement aliases
\* exactly when no entry matched by instance aliases only comes before it.
C9_FirstMatchWins ==
    stub_and_instance_match =>
        \E i \in take_matching :
            /\ \A j \in take_matching : i <= j
            /\ last.stub = Some(taken_from[i][1])
            /\ last.moved = Some(taken_from[i][2])
            /\ (last.cmd.arg[1] \in last.stub[1].targets)
                  <=> (\A b \in take_matching :
                          last.cmd.arg[1] \notin taken_from[b][1].targets => i < b)

\* C9 witness: such a take where the entry matched by its placement aliases
\* came first and was returned.
C9_Witness ==
    /\ stub_and_instance_match
    /\ last.stub # None
    /\ last.cmd.arg[1] \in last.stub[1].targets

\* The room of the level at the position before the last command.
room_before == Level.rooms[get_room(Level, last.pre.coord)[1]]

\* The last command was a player-input error: an unknown verb, a missing
\* target or a dangling preposition (all of them reach the loop as a
\* message), a drop that matches nothing or a sticky entry, a take that
\* matches nothing, a talk or look whose target matches nothing, or a move in
\* a direction whose adjacency entry is None.
input_error ==
    \/ last.cmd.kind = "Message"
    \/ /\ last.cmd.kind = "Drop"
       /\ \/ dropped_index = 0
          \/ last.pre.inventory[dropped_index].sticky
    \/ /\ last.cmd.kind = "Take"
       /\ take_matching = {}
    \/ /\ last.cmd.kind = "Talk" /\ last.cmd.arg # None
       /\ find_action(room_before, "Talk", last.cmd.arg[1], Level).tag = "None"
    \/ /\ last.cmd.kind = "Look" /\ last.cmd.arg # None
       /\ look_command(room_before, Level, ItemDb, last.cmd.arg[1]) = "not seen"
    \/ /\ last.cmd.kind = "Move"
       /\ lookup_room_info[last.pre.coord][last.cmd.arg[1]] = None

\* C10: after a player-input error the session state (position, debug flag,
\* player inventory, every room inventory with its order) is the one before
\* the command, and the turn loop goes on.
C10_InputErrorsKeepState ==
    input_error =>
        /\ coord = last.pre.coord
        /\ debug = last.pre.debug
        /\ inventory = last.pre.inventory
        /\ room_inventories = last.pre.room_inventories
        /\ pc = "loop"

\* C10 witness: a take that matched nothing in a room that holds items, in a
\* session that has already moved, taken an item and switched debug on.
C10_Witness ==
    /\ last.cmd.kind = "Take"
    /\ take_matching = {}
    /\ taken_from # << >>
    /\ coord # Level.entry
    /\ debug
    /\ inventory # InitialGame.inventory

(***************************************************************************)
(* Properties of the map resolver, under MapSpec.                          *)
(***************************************************************************)
\* The cell (x, y, z) of a layered grid is passable: it lies on the grid, its
\* character is `.` and no space comes before it in its row.
passable(maps, x, y, z) ==
    /\ z \in 0..(Len(maps) - 1)
    /\ y \in 0..(Len(maps[z + 1]) - 1)
    /\ x \in 0..(Len(maps[z + 1][y + 1]) - 1)
    /\ maps[z + 1][y + 1][x + 1] = "."
    /\ \A k \in 1..x : maps[z + 1][y + 1][k] # " "

\* The passable cells of the level under MapSpec.
passable_cells ==
    {c \in {Coord(x, y, z) : x \in 0..(MaxCols - 1), y \in 0..(MaxRows - 1),
                             z \in 0..(MaxLayers - 1)} :
        passable(game_level.maps, c.x, c.y, c.z)}

\* Some(the cell) when the cell is passable, None otherwise.
neighbour(x, y, z) ==
    IF passable(game_level.maps, x, y, z) THEN Some(Coord(x, y, z)) ELSE None

\* C11: once the resolver has built the adjacency records, there is one for
\* each passable cell and no other; its north, south, east and west entries
\* are Some of the cell one step up, down, right and left in the same layer
\* exactly when that cell is passable and None otherwise, so that no entry is
\* a diagonal cell or a cell of another layer.
C11_Adjacency ==
    pc = "loop" =>
        /\ DOMAIN room_map = passable_cells
        /\ \A c \in DOMAIN room_map :
                /\ room_map[c]["North"] = neighbour(c.x, c.y - 1, c.z)
                /\ room_map[c]["South"] = neighbour(c.x, c.y + 1, c.z)
                /\ room_map[c]["East"] = neighbour(c.x + 1, c.y, c.z)
                /\ room_map[c]["West"] = neighbour(c.x - 1, c.y, c.z)
                /\ \A d \in Directions :
                        room_map[c][d] # None =>
                            LET n == room_map[c][d][1]
                            IN  /\ n.z = c.z
                                /\ \/ n.x = c.x /\ n.y \in {c.y - 1, c.y + 1}
                                   \/ n.y = c.y /\ n.x \in {c.x - 1, c.x + 1}

\* C11 witness: records were built for a map on which some cell has a
\* passable neighbour, a passable diagonal cell that is no neighbour of it, a
\* passable cell at its place in another layer, and a wall beside it.
C11_Witness ==
    /\ pc = "loop"
    /\ \E c \in DOMAIN room_map :
            /\ \E d \in Directions : room_map[c][d] # None
            /\ \E d \in Directions : room_map[c][d] = None
            /\ \E e \in DOMAIN room_map :
                    e.z = c.z /\ e.x # c.x /\ e.y # c.y
            /\ \E e \in DOMAIN room_map : e.z # c.z /\ e.x = c.x /\ e.y = c.y

opposite(direction) ==
    CASE direction = "North" -> "South"
      [] direction = "South" -> "North"
      [] direction = "East" -> "West"
      [] direction = "West" -> "East"

\* The adjacency records are mutually consistent.
consistent(records) ==
    \A a, b \in DOMAIN records :
        \A d \in Directions :
            records[a][d] = Some(b) <=> records[b][opposite(d)] = Some(a)

\* The step is a move command in the direction opposite to that of the
\* successful move right before it.
moves_back ==
    /\ last.cmd.kind = "Move" /\ last.out = "moved"
    /\ last'.cmd.kind = "Move"
    /\ last'.cmd.arg[1] = opposite(last.cmd.arg[1])

\* C12: the adjacency records the resolver built are mutually consistent (A's
\* north is B iff B's south is A, A's east is B iff B's west is A), and a move
\* in the direction opposite to the successful move before it succeeds and
\* puts the player back on the coordinate that move started from.
C12_MutuallyConsistent ==
    /\ [](pc = "loop" => consistent(room_map))
    /\ [][moves_back => last'.out = "moved" /\ coord' = last.pre.coord]_vars

\* C12 witness: the player is back on the entry after a move there and a move
\* back, on a map of two passable cells.
C12_Witness ==
    /\ pc = "loop"
    /\ Cardinality(DOMAIN room_map) = 2
    /\ last.out = "moved"
    /\ coord = game_level.entry

\* The rooms of the level that carry a coordinate.
rooms_at(c) == {k \in 1..Len(game_level.rooms) : game_level.rooms[k].coord = c}

\* C13: on a level with a passable cell in column 0 or in row 0 the resolver
\* does not fail on the subtraction of a directional delta, and the record it
\* builds for such a cell has no west (column 0) or no north (row 0) entry.
C13_NoUnderflowAtEdge ==
    pc # "start" =>
        \A c \in passable_cells :
            (c.x = 0 \/ c.y = 0) =>
                /\ last.out # "overflow"
                /\ pc = "loop" =>
                        /\ c.x = 0 => room_map[c]["West"] = None
                        /\ c.y = 0 => room_map[c]["North"] = None

\* C14: when the resolver stops because a passable cell has no room, the
\* coordinates it has reported are those of all passable cells without a room.
C14_AllMissingReported ==
    last.out = "no room" =>
        {reported[k].coord[1] : k \in 1..Len(reported)}
            = {c \in passable_cells : rooms_at(c) = {}}

\* C15: when the turn loop prompts for the first command, every passable
\* cell of the level has exactly one room.
C15_ExactlyOneRoom ==
    pc = "loop" => \A c \in passable_cells : Cardinality(rooms_at(c)) = 1

\* The catalog instance with an id.
catalog(id) == CHOOSE item \in {ItemDb[k] : k \in 1..Len(ItemDb)} : item.id = id

\* The entry initialize makes of a placement stub.
placed(stub) == <<stub, [catalog(stub.id) EXCEPT !.quantity = stub.quantity]>>

\* C25: the state a session starts with when there is no save file: the
\* position is the entry coordinate, the debug flag is off, the player holds
\* the weapon and the money instance of the catalog, in that order, and each
\* room of the level has a room inventory with one entry per placement stub,
\* in stub order, a catalog instance with the stub's quantity; it is the state
\* a second initialization gives.
C25_Initialize ==
    (pc = "loop" /\ last.cmd.kind = "Launch") =>
        /\ coord = game_level.entry
        /\ debug = FALSE
        /\ inventory = <<catalog("sword"), catalog("gold")>>
        /\ inventory[1].variant = "Weapon" /\ inventory[2].variant = "Money"
        /\ \A k \in 1..Len(game_level.rooms) :
                LET r == game_level.rooms[k]
                IN  /\ r.coord \in DOMAIN room_inventories
                    /\ room_inventories[r.coord] = [j \in 1..Len(r.items) |-> placed(r.items[j])]
        /\ SaveState = initialize(ItemDb, game_level)

(***************************************************************************)
(* Looks and talks in the entry room of levels whose tables and references *)
(* vary: the room's own actions, the region ids and the NPC ids it lists,  *)
(* some of them absent from the level's tables.                            *)
(***************************************************************************)
MaxActions == 2
MaxRegions == 2
MaxNpcs == 2

\* The sequences over a set up to a length.
SeqsUpTo(S, n) == UNION {[1..k -> S] : k \in 0..n}

\* Level.regions and Level.npcs of these levels.
RegionTable ==
    [r \in {"market", "docks"} |->
        IF r = "market"
        THEN [actions |-> <<ActionOf("Look", <<"banner">>, "Banners hang overhead."),
                            ActionOf("Talk", <<"crowd">>, "The crowd murmurs.")>>]
        ELSE [actions |-> <<ActionOf("Talk", <<"banner", "crowd">>, "Dockers shout back."),
                            ActionOf("Look", <<"flag", "sign">>, "Flags of the docks."),
                            ActionOf("Look", <<"banner", "sign">>, "A dockside sign.")>>]]

NpcTable ==
    [n \in {"merchant", "trader"} |->
        IF n = "merchant"
        THEN [name |-> "Merchant", description |-> "A merchant.",
              targets |-> <<"merchant">>, talk |-> "Buy something.",
              items |-> <<[id |-> "token", cost |-> 5]>>]
        ELSE [name |-> "Trader", description |-> "A trader.",
              targets |-> <<"trader", "merchant">>, talk |-> "Sell something.",
              items |-> << >>]]

\* What the entry room of these levels may list.
RoomActions ==
    {ActionOf("Look", <<"sign">>, "The sign reads: market."),
     ActionOf("Talk", <<"sign", "crowd">>, "You address the crowd."),
     ActionOf("Look", <<"banner", "sign">>, "A painted banner.")}
RegionIds == {"market", "docks", "ghost"}
NpcIds == {"merchant", "trader", "nobody"}

\* The level with the lists of its entry room and its tables replaced.
lookup_level(actions, regions, npcs) ==
    [Level EXCEPT !.rooms[1].actions = actions, !.rooms[1].regions = regions,
                  !.rooms[1].npcs = npcs, !.regions = RegionTable, !.npcs = NpcTable]

\* The turn loop waits for the first command in the entry room.
LookupInit ==
    /\ \E actions \in {None} \cup {Some(a) : a \in SeqsUpTo(RoomActions, MaxActions)},
          regions \in SeqsUpTo(RegionIds, MaxRegions),
          npcs \in SeqsUpTo(NpcIds, MaxNpcs) :
            game_level = lookup_level(actions, regions, npcs)
    /\ LET game == InitialGame
       IN  /\ coord = game.coord
           /\ debug = game.debug
           /\ inventory = game.inventory
           /\ room_inventories = game.room_inventories
           /\ room = game.room
           /\ room_info = game.room_info
    /\ room_map = lookup_room_info
    /\ pc = "loop"
    /\ save_file = None
    /\ reported = << >>
    /\ line = << >>
    /\ last = [cmd |-> Cmd("Start", None), out |-> "started",
               pre |-> initialize(ItemDb, Level), moved |-> None, stub |-> None,
               before_take |-> None]

LookupNext ==
    \/ LookTarget
    \/ TalkTarget

LookupSpec == LookupInit /\ [][LookupNext]_vars

(***************************************************************************)
(* Properties of the lookups, under LookupSpec.                            *)
(***************************************************************************)
\* The last command was a look or a talk with a target; its verb and target.
looked_up == last.cmd.kind \in {"Look", "Talk"} /\ last.cmd.arg # None
verb_then == last.cmd.kind
target_then == last.cmd.arg[1]

\* The room in which the last command was given.
room_then == game_level.rooms[get_room(game_level, last.pre.coord)[1]]

\* What find_action returned to the last command.
action_then == find_action(room_then, verb_then, target_then, game_level)

\* The actions of a list with a verb and a target among their aliases.
matches(actions, verb, target) ==
    {i \in 1..Len(actions) :
        /\ actions[i].verb = verb
        /\ target \in {actions[i].targets[k] : k \in 1..Len(actions[i].targets)}}

own_actions == IF room_then.actions = None THEN << >> ELSE room_then.actions[1]

dangling_regions ==
    {i \in 1..Len(room_then.regions) : room_then.regions[i] \notin DOMAIN game_level.regions}

\* C16: a look or talk with a target, in a room whose region list has an id
\* that the region table lacks, is fatal: find_action returns nothing and the
\* process stops.
C16_DanglingRegionFatal ==
    (looked_up /\ dangling_regions # {}) =>
        /\ action_then.tag = "panic"
        /\ last.out = "panic"
        /\ pc = "panic"

\* The listed regions, by position, that have an action for the verb and
\* target of the last command.
regions_matching ==
    {i \in 1..Len(room_then.regions) :
        /\ room_then.regions[i] \in DOMAIN game_level.regions
        /\ matches(game_level.regions[room_then.regions[i]].actions,
                   verb_then, target_then) # {}}

\* C17: find_action returns the first action of the room's own list with the
\* verb and the target among its aliases, whatever the room's regions are;
\* with no such action and every listed region id in the table, it returns
\* the first such action of the first listed region that has one, and none
\* when no listed region has one.
C17_FindAction ==
    looked_up =>
        LET own == matches(own_actions, verb_then, target_then)
        IN  IF own # {}
            THEN /\ \E i \in own :
                        /\ \A j \in own : i <= j
                        /\ action_then = [tag |-> "Some", val |-> own_actions[i]]
                 /\ last.out = "action"
            ELSE dangling_regions = {} =>
                    IF regions_matching # {}
                    THEN /\ \E i \in regions_matching :
                                LET actions == game_level.regions[room_then.regions[i]].actions
                                    found == matches(actions, verb_then, target_then)
                                IN  /\ \A j \in regions_matching : i <= j
                                    /\ \E a \in found :
                                            /\ \A b \in found : a <= b
                                            /\ action_then = [tag |-> "Some", val |-> actions[a]]
                         /\ last.out = "action"
                    ELSE /\ action_then = [tag |-> "None"]
                         /\ last.out # "action"

\* C17 witness: the room's own list has an action with the target but another
\* verb, its first listed region has no action for the command, and the
\* second has two of them: the look reported an action.
C17_Witness ==
    /\ looked_up
    /\ last.out = "action"
    /\ matches(own_actions, verb_then, target_then) = {}
    /\ \E i \in 1..Len(own_actions) :
            target_then \in {own_actions[i].targets[k] : k \in 1..Len(own_actions[i].targets)}
    /\ dangling_regions = {}
    /\ regions_matching = {2}
    /\ Cardinality(matches(game_level.regions[room_then.regions[2]].actions,
                           verb_then, target_then)) = 2

\* The listed NPC ids, by position, that the NPC table lacks.
dangling_npcs ==
    {i \in 1..Len(room_then.npcs) : room_then.npcs[i] \notin DOMAIN game_level.npcs}

\* The listed NPCs, by position, with the target among their aliases.
npcs_matching ==
    {i \in 1..Len(room_then.npcs) :
        /\ room_then.npcs[i] \in DOMAIN game_level.npcs
        /\ target_then \in {game_level.npcs[room_then.npcs[i]].targets[k] :
                                k \in 1..Len(game_level.npcs[room_then.npcs[i]].targets)}}

\* The last command was a look whose target no action has, so that
\* look_command went on to resolve an NPC.
npc_looked_up ==
    /\ last.cmd.kind = "Look" /\ last.cmd.arg # None
    /\ action_then.tag = "None"

npc_then == get_npc(room_then, game_level, target_then)

\* C18: get_npc is fatal when any id of the room's NPC list is missing from
\* the NPC table; otherwise it returns the first listed NPC with the target
\* among its aliases, and none when no listed NPC has it.
C18_ResolveNpc ==
    npc_looked_up =>
        IF dangling_npcs # {}
        THEN npc_then.tag = "panic" /\ last.out = "panic"
        ELSE IF npcs_matching # {}
        THEN \E i \in npcs_matching :
                /\ \A j \in npcs_matching : i <= j
                /\ npc_then = [tag |-> "Some", val |-> game_level.npcs[room_then.npcs[i]]]
                /\ last.out = "npc"
        ELSE npc_then = [tag |-> "None"] /\ last.out # "npc"

(***************************************************************************)
(* One turn of the loop up to the parsed command, for every short line.    *)
(* The line is the one get_prompt returns, that is, already in lower case. *)
(***************************************************************************)
MaxTargetWords == 3

\* The first tokens: every keyword of parse_command and two other words.
Keywords ==
    {"look", "l", "talk", "t", "north", "n", "east", "e", "south", "s", "west", "w",
     "inventory", "inv", "go", "help", "debug", "drop", "pick", "pickup", "take", "grab",
     "quit", "q", "exit", "restart"}
FirstTokens == Keywords \cup {"i", "items", "h", "dance"}

\* The tokens after the first.
TargetTokens == Prepositions \cup {"gold", "coins", "north"}

\* The direction words `go` knows.
GoWords == {"north", "east", "south", "west"}

\* The lines typed character by character: up to MaxTyped characters, each a
\* blank, a tab or the letter l.
MaxTyped == 3
TypedChars == Whitespace \cup {"l"}
TypedLines == UNION {[1..n -> TypedChars] : n \in 0..MaxTyped}

\* The turn loop has read a line.
ParserInit ==
    /\ LET game == InitialGame
       IN  /\ coord = game.coord
           /\ debug = game.debug
           /\ inventory = game.inventory
           /\ room_inventories = game.room_inventories
           /\ room = game.room
           /\ room_info = game.room_info
    /\ game_level = Level
    /\ room_map = lookup_room_info
    /\ pc = "prompt"
    /\ save_file = None
    /\ reported = << >>
    /\ line \in {<< >>} \cup
            {<<first>> \o words : first \in FirstTokens,
                                  words \in SeqsUpTo(TargetTokens, MaxTargetWords)} \cup
            {<<"go", word>> : word \in GoWords} \cup
            {split_whitespace(text) : text \in TypedLines}
    /\ last = [cmd |-> Cmd("Start", None), out |-> "started",
               pre |-> initialize(ItemDb, Level), moved |-> None, stub |-> None,
               before_take |-> None]

\* parse_command on the line, an error becoming a message.
Parse ==
    /\ pc = "prompt"
    /\ pc' = "parsed"
    /\ last' = History(command_of(line),
                       IF parse_command(line).ok THEN "parsed" ELSE "rejected",
                       None, None, None)
    /\ UNCHANGED <<coord, debug, inventory, room_inventories, room, room_info, game_level,
                   room_map, save_file, reported, line>>

ParserNext ==
    \/ Parse

ParserSpec == ParserInit /\ [][ParserNext]_vars

(***************************************************************************)
(* Properties of the command interpreter, under ParserSpec.                *)
(***************************************************************************)
\* Words joined by single spaces.
RECURSIVE joined(_)
joined(words) ==
    IF Len(words) = 1 THEN words[1] ELSE words[1] \o " " \o joined(Tail(words))

\* The target-taking verbs and the prepositions of the command grammar.
TargetVerbs == {"look", "l", "talk", "t", "go", "drop", "pick", "pickup", "take", "grab"}
TargetPrepositions == {"at", "to", "in", "up"}

\* What a target-taking verb makes of a target.
with_target(verb, target) ==
    CASE verb \in {"look", "l"} -> Ok(Cmd("Look", Some(target)))
      [] verb \in {"talk", "t"} -> Ok(Cmd("Talk", Some(target)))
      [] verb = "drop" -> Ok(Cmd("Drop", Some(target)))
      [] verb \in {"pick", "pickup", "take", "grab"} -> Ok(Cmd("Take", Some(target)))
      [] verb = "go" ->
            CASE target = "north" -> Ok(Cmd("Move", Some("North")))
              [] target = "east" -> Ok(Cmd("Move", Some("East")))
              [] target = "south" -> Ok(Cmd("Move", Some("South")))
              [] target = "west" -> Ok(Cmd("Move", Some("West")))
              [] OTHER -> Err("You don't know how to go \"" \o target \o "\"")

\* The parsed line began with a target-taking verb followed by words.
target_given == pc = "parsed" /\ Len(line) >= 2 /\ line[1] \in TargetVerbs

\* C19: for a target-taking verb followed by words of which the first is no
\* preposition, the parsed target is the words joined by single spaces.
C19_TargetJoined ==
    (target_given /\ line[2] \notin TargetPrepositions) =>
        /\ parse_command_target(line[1], Tail(line)) = Ok(Some(joined(Tail(line))))
        /\ parse_command(line) = with_target(line[1], joined(Tail(line)))

DirectionWords == {"north", "east", "south", "west"}
letter_of(d) ==
    CASE d = "north" -> "n" [] d = "east" -> "e" [] d = "south" -> "s" [] d = "west" -> "w"
MoveTo(d) ==
    Cmd("Move", Some(CASE d = "north" -> "North" [] d = "east" -> "East"
                       [] d = "south" -> "South" [] d = "west" -> "West"))

\* C21: for each direction d the lines `go d`, `d` and d's one-letter alias
\* parse to the same command Move(d); `go` followed by one word that is not a
\* direction is an error; `go` alone parses to a message that asks where to
\* go, which is no movement command.
C21_GoDirection ==
    pc = "parsed" =>
        /\ \A d \in DirectionWords :
                line \in {<<"go", d>>, <<d>>, <<letter_of(d)>>} =>
                    /\ last.out = "parsed"
                    /\ last.cmd = MoveTo(d)
        /\ (Len(line) = 2 /\ line[1] = "go" /\ line[2] \notin DirectionWords) =>
                /\ ~parse_command(line).ok
                /\ last.out = "rejected"
                /\ last.cmd.kind = "Message"
        /\ line = <<"go">> =>
                /\ last.out = "parsed"
                /\ last.cmd = Message("Where do you want to go?")
                /\ coord = last.pre.coord

\* C21 witness: `go west` was parsed to the command that moves west.
C21_Witness ==
    /\ pc = "parsed"
    /\ line = <<"go", "west">>
    /\ last.cmd = Cmd("Move", Some("West"))

\* C22: each of the lines `inventory`, `inv`, `i` and `items` parses to the
\* Inventory command, and each of `help` and `h` parses to the Help command.
C22_KeywordAliases ==
    pc = "parsed" =>
        /\ line \in {<<"inventory">>, <<"inv">>, <<"i">>, <<"items">>} =>
                last.cmd = Cmd("Inventory", None)
        /\ line \in {<<"help">>, <<"h">>} => last.cmd = Cmd("Help", None)

\* The verb keywords of the command grammar.
VerbKeywords ==
    {"look", "l", "talk", "t", "north", "n", "east", "e", "south", "s", "west", "w", "go",
     "inventory", "inv", "i", "items", "help", "h", "debug", "drop",
     "pick", "pickup", "take", "grab", "quit", "q", "exit", "restart"}

\* part occurs in text.
contains(text, part) ==
    \E k \in 1..(Len(text) - Len(part) + 1) : SubSeq(text, k, k + Len(part) - 1) = part

\* C24: a line whose first token is no verb keyword parses successfully to a
\* message, and the message carries the line as it was typed.
C24_UnknownVerbMessage ==
    (pc = "parsed" /\ line # << >> /\ line[1] \notin VerbKeywords) =>
        /\ parse_command(line).ok
        /\ last.out = "parsed"
        /\ last.cmd.kind = "Message"
        /\ contains(last.cmd.arg[1], joined(line))

(***************************************************************************)
(* Further properties of the session, under Spec.                          *)
(***************************************************************************)
\* The lines of up to MaxTyped characters that hold only whitespace.
BlankLines == UNION {[1..n -> {" ", "\t"}] : n \in 0..MaxTyped}

\* Every line of whitespace only has no tokens and parses as `look` does.
blank_is_look ==
    \A text \in BlankLines :
        /\ split_whitespace(text) = << >>
        /\ parse_command(split_whitespace(text)) = parse_command(<<"look">>)
        /\ command_of(split_whitespace(text)) = Cmd("Look", None)

\* C23: a line without tokens (empty, or of whitespace only) parses to the
\* same command as `look`, namely Look with no target; the turn that executes
\* it displays the current room and changes nothing of the session state.
C23_EmptyIsLook ==
    /\ blank_is_look
    /\ (last.cmd = command_of(<< >>) /\ last.cmd.kind # "Start") =>
            /\ last.out = "room"
            /\ SaveState = last.pre
            /\ pc = "loop"

\* C23 witness: after a move, the turn loop executed the command of the empty
\* line and displayed the room.
C23_Witness ==
    /\ last.cmd = command_of(<< >>)
    /\ last.cmd = Cmd("Look", None)
    /\ last.out = "room"
    /\ coord # Level.entry

\* The coordinates of the rooms of the level.
room_coords == {game_level.rooms[k].coord : k \in 1..Len(game_level.rooms)}

\* C26: in every state of a session the coordinates that have a room
\* inventory are the coordinates of the level's rooms, the current position
\* is one of them, and no command adds or removes a key of the mapping.
C26_RoomInventoryKeys ==
    /\ [](/\ DOMAIN room_inventories = room_coords
          /\ coord \in DOMAIN room_inventories
          /\ pc # "panic")
    /\ [][DOMAIN room_inventories' = DOMAIN room_inventories]_vars

\* C26 witness: an item was dropped in a room other than the entry room whose
\* inventory was empty before the drop.
C26_Witness ==
    /\ last.out = "dropped"
    /\ coord # game_level.entry
    /\ last.pre.room_inventories[coord] = << >>
    /\ DOMAIN room_inventories = room_coords

\* The current position is a passable cell with a room, an adjacency record
\* and a room inventory, and the game holds that room and that record.
position_ok ==
    /\ passable(game_level.maps, coord.x, coord.y, coord.z)
    /\ \E k \in 1..Len(game_level.rooms) : game_level.rooms[k].coord = coord
    /\ coord \in DOMAIN room_map
    /\ coord \in DOMAIN room_inventories
    /\ game_level.rooms[room].coord = coord
    /\ room_info = room_map[coord]

\* C29: in every state of a session that started at the entry the current
\* position is a passable cell with a room, an adjacency record and a room
\* inventory, and the cached room and record are those of the position; a
\* move in direction d goes to the record's entry for d when it is Some and
\* stays when it is None.
C29_PositionInvariant ==
    /\ [](pc = "loop" => position_ok)
    /\ [][last'.cmd.kind = "Move" =>
            LET target == room_info[last'.cmd.arg[1]]
            IN  /\ coord' = IF target # None THEN target[1] ELSE coord
                /\ last'.out = IF target # None THEN "moved" ELSE "cannot move"]_vars

\* C29 witness: after a take and a move the session is in a room other than
\* the entry room, and a move against a wall was refused there.
C29_Witness ==
    /\ pc = "loop"
    /\ coord # game_level.entry
    /\ last.cmd.kind = "Move" /\ last.out = "cannot move"
    /\ \E k \in 1..Len(inventory) : inventory[k].id = "token"
    /\ position_ok

\* The session state is as it was before the last command.
session_kept == SaveState = last.pre

\* C30: a move changes only the position; debug flips only the debug flag,
\* and a second debug restores it; a successful take or drop leaves the
\* position, the debug flag and the inventory of every room but the current
\* one as they were; look, talk, help and inventory change nothing.
C30_Frame ==
    /\ [](/\ last.cmd.kind = "Move" =>
                /\ debug = last.pre.debug
                /\ inventory = last.pre.inventory
                /\ room_inventories = last.pre.room_inventories
          /\ last.cmd.kind = "Debug" =>
                /\ debug = ~last.pre.debug
                /\ coord = last.pre.coord
                /\ inventory = last.pre.inventory
                /\ room_inventories = last.pre.room_inventories
          /\ last.out \in {"taken", "dropped"} =>
                /\ coord = last.pre.coord
                /\ debug = last.pre.debug
                /\ inventory # last.pre.inventory
                /\ room_inventories[coord] # last.pre.room_inventories[coord]
                /\ \A c \in DOMAIN last.pre.room_inventories \cup DOMAIN room_inventories :
                        c # coord =>
                            /\ c \in DOMAIN last.pre.room_inventories
                            /\ c \in DOMAIN room_inventories
                            /\ room_inventories[c] = last.pre.room_inventories[c]
          /\ last.cmd.kind \in {"Look", "Talk", "Help", "Inventory"} => session_kept)
    /\ [][(last.cmd.kind = "Debug" /\ last'.cmd.kind = "Debug") =>
            debug' = last.pre.debug]_vars

\* C30 witness: gold was dropped in a room other than the entry room with
\* the debug flag on, the other rooms keeping their inventories.
C30_Witness ==
    /\ last.out = "dropped"
    /\ last.moved[1].id = "gold"
    /\ coord # game_level.entry
    /\ debug
    /\ room_inventories[game_level.entry] = last.pre.room_inventories[game_level.entry]

\* The entries of the inventory before the last command that the name of the
\* last command matches: by lower-cased display name or by alias.
drop_matching ==
    {k \in 1..Len(last.pre.inventory) :
        \/ to_lowercase(last.pre.inventory[k].name) = last.cmd.arg[1]
        \/ last.cmd.arg[1] \in last.pre.inventory[k].targets}

\* C31: a drop decides on the first entry of the player's inventory whose
\* lower-cased display name is the given name or whose aliases contain it:
\* when that entry is sticky the result is Sticky and nothing is removed,
\* whatever matches after it; otherwise that entry is the one removed; when
\* no entry matches the result is None and the inventory is unchanged.
C31_DropFirstMatch ==
    last.cmd.kind = "Drop" =>
        IF drop_matching = {}
        THEN /\ last.out = "nothing to drop"
             /\ inventory = last.pre.inventory
        ELSE LET first == CHOOSE k \in drop_matching : \A j \in drop_matching : k <= j
                 entry == last.pre.inventory[first]
             IN  IF entry.sticky
                 THEN /\ last.out = "sticky"
                      /\ inventory = last.pre.inventory
                 ELSE /\ last.out = "dropped"
                      /\ last.moved = Some(entry)
                      /\ inventory = [k \in 1..(Len(last.pre.inventory) - 1) |->
                                        IF k < first THEN last.pre.inventory[k]
                                        ELSE last.pre.inventory[k + 1]]

\* C31 witness: a drop by an alias that the sticky first entry and a later
\* entry that is not sticky both carry was refused as sticky.
C31_Witness ==
    /\ last.cmd.kind = "Drop"
    /\ last.out = "sticky"
    /\ \E k \in drop_matching : last.pre.inventory[k].sticky
    /\ \E k \in drop_matching : ~last.pre.inventory[k].sticky
    /\ inventory = last.pre.inventory

(***************************************************************************)
(* The start of the process on one-layer maps drawn over every kind of     *)
(* character: a room cell, the two wall characters, a space and a          *)
(* character parse_map does not know.  Every room cell has its room.       *)
(***************************************************************************)
MaxScanCols == 3
MaxScanRows == 2

ScanChars == {".", "#", "-", " ", "?"}
ScanRows == UNION {[1..n -> ScanChars] : n \in 0..MaxScanCols}
ScanMaps == {<<layer>> : layer \in UNION {[1..n -> ScanRows] : n \in 1..MaxScanRows}}

ScanInit ==
    /\ \E maps \in ScanMaps :
            game_level = level_on(maps, coord_map([maps |-> maps]), <<{}, {}>>)
    /\ coord = game_level.entry
    /\ debug = FALSE
    /\ inventory = << >>
    /\ room_inventories = << >>
    /\ room = 0
    /\ room_info = [d \in Directions |-> None]
    /\ room_map = << >>
    /\ pc = "start"
    /\ save_file = None
    /\ reported = << >>
    /\ line = << >>
    /\ last = [cmd |-> Cmd("Start", None), out |-> "not started",
               pre |-> initialize(ItemDb, game_level), moved |-> None, stub |-> None,
               before_take |-> None]

ScanNext ==
    \/ Launch

ScanSpec == ScanInit /\ [][ScanNext]_vars

(***************************************************************************)
(* Properties of the first pass of the map resolver, under ScanSpec.       *)
(***************************************************************************)
\* The cells of the grids of the level.
grid_cells ==
    {c \in {Coord(x, y, z) : x \in 0..(MaxScanCols - 1), y \in 0..(MaxScanRows - 1),
                             z \in {0}} :
        /\ c.y < Len(game_level.maps[c.z + 1])
        /\ c.x < Len(game_level.maps[c.z + 1][c.y + 1])}

char_at(c) == game_level.maps[c.z + 1][c.y + 1][c.x + 1]

\* A space occurs before the cell in its row.
after_space(c) == \E k \in 1..c.x : game_level.maps[c.z + 1][c.y + 1][k] = " "

\* The cells that hold a character other than `.`, `#`, `-` and the space,
\* with no space before them in their row.
offending_cells ==
    {c \in grid_cells : char_at(c) \notin {".", "#", "-", " "} /\ ~after_space(c)}

\* C32: the first pass makes a cell passable iff its character is `.` and no
\* space comes before it in its row, so that `#` and `-` cells and every
\* cell after a space are not passable, and a cell after a space is not
\* reported either; any other character before a space ends the process
\* with a report that points at the first such cell.
C32_FirstPass ==
    last.cmd.kind = "Launch" =>
        IF offending_cells # {}
        THEN /\ pc = "exit"
             /\ last.out = "unknown character"
             /\ Len(reported) = 1
             /\ reported[1].text = "Unknown character in a map."
             /\ reported[1].coord # None
             /\ reported[1].coord[1] \in offending_cells
             /\ \A c \in offending_cells :
                    \/ reported[1].coord[1].y < c.y
                    \/ reported[1].coord[1].y = c.y /\ reported[1].coord[1].x <= c.x
        ELSE /\ last.out # "unknown character"
             /\ \A k \in 1..Len(reported) : reported[k].text # "Unknown character in a map."
             /\ pc = "loop" =>
                    DOMAIN room_map = {c \in grid_cells : char_at(c) = "." /\ ~after_space(c)}

\* C32 witness: the session started on a map with a `-` cell, a room cell
\* and a row in which an unknown character and a `.` follow a space.
C32_Witness ==
    /\ last.cmd.kind = "Launch"
    /\ pc = "loop"
    /\ \E c \in grid_cells : char_at(c) = "-"
    /\ \E c \in grid_cells : char_at(c) = "?" /\ after_space(c)
    /\ \E c \in grid_cells : char_at(c) = "." /\ after_space(c)
    /\ DOMAIN room_map # {}

(***************************************************************************)
(* The session over several runs of the process: main returns on quit,     *)
(* leaving the save file, and the process is started again.  A session     *)
(* that was read from a save file executes one command; a session that     *)
(* began without a save file executes any number.                          *)
(***************************************************************************)
\* No command has been executed yet in a session read from a save file.
first_turn_of_resumed == save_file = None \/ last.cmd.kind = "Launch"

SaveNext ==
    \/ Launch
    \/ (first_turn_of_resumed /\ LookTarget)
    \/ (first_turn_of_resumed /\ LookRoom)
    \/ (first_turn_of_resumed /\ Help)
    \/ (first_turn_of_resumed /\ Move)
    \/ (first_turn_of_resumed /\ Debug)
    \/ (first_turn_of_resumed /\ Drop)
    \/ (first_turn_of_resumed /\ Take)
    \/ (first_turn_of_resumed /\ Quit)
    \/ (first_turn_of_resumed /\ TalkTarget)
    \/ (first_turn_of_resumed /\ TalkNone)
    \/ (first_turn_of_resumed /\ Inventory)
    \/ (first_turn_of_resumed /\ PrintMessage)
    \/ (first_turn_of_resumed /\ Restart)

SaveSpec == Init /\ [][SaveNext]_vars

(***************************************************************************)
(* Properties of the save file, under SaveSpec.                            *)
(***************************************************************************)
\* C27: the session the process starts with after a quit is the session at
\* the quit: the same position, debug flag and player inventory and the same
\* inventory for every room, entries, quantities and order, and with them the
\* same current room and adjacency record.
C27_PersistLossless ==
    /\ [](pc = "quit" => /\ save_file # None
                         /\ SaveState_from_yaml(save_file[1]) = SaveState)
    /\ [][(pc = "quit" /\ pc' # "quit") =>
            /\ pc' = "loop"
            /\ last'.out = "resumed"
            /\ coord' = coord
            /\ debug' = debug
            /\ inventory' = inventory
            /\ room_inventories' = room_inventories
            /\ room' = room
            /\ room_info' = room_info]_vars

\* C27 witness: a session was resumed away from the entry, with the debug
\* flag on, the token taken and gold dropped in the entry room, where nothing
\* had been placed.
C27_Witness ==
    /\ last.cmd.kind = "Launch"
    /\ last.out = "resumed"
    /\ coord # game_level.entry
    /\ debug
    /\ \E k \in 1..Len(inventory) : inventory[k].id = "token"
    /\ \E k \in 1..Len(room_inventories[game_level.entry]) :
            room_inventories[game_level.entry][k][2].id = "gold"

\* C28: a confirmed restart leaves no save file and a session in the state
\* initialize produces, at the entry room, whatever state and save file there
\* were; a declined restart changes neither the session nor the save file and
\* the turn loop goes on; the process ends only by the quit command.
C28_Restart ==
    /\ [][(last'.cmd.kind = "Restart" /\ last'.out = "restarted") =>
            /\ save_file' = None
            /\ [coord |-> coord', debug |-> debug', inventory |-> inventory',
                room_inventories |-> room_inventories'] = initialize(ItemDb, game_level)
            /\ game_level.rooms[room'].coord = game_level.entry
            /\ room_info' = room_map[game_level.entry]
            /\ pc' = "loop"]_vars
    /\ [][(last'.cmd.kind = "Restart" /\ last'.out = "keep playing") =>
            /\ UNCHANGED <<coord, debug, inventory, room_inventories, room, room_info,
                           save_file>>
            /\ pc = "loop" /\ pc' = "loop"]_vars
    /\ [][(pc # "quit" /\ pc' # "loop") => (pc' = "quit" /\ last'.cmd.kind = "Quit")]_vars

\* C28 witness: a restart was confirmed away from the entry with the debug
\* flag on; the session is at the entry and there is no save file.
C28_Witness ==
    /\ last.cmd.kind = "Restart"
    /\ last.out = "restarted"
    /\ last.pre.coord # game_level.entry
    /\ last.pre.debug
    /\ save_file = None
    /\ coord = game_level.entry

====
